---- MODULE Spec2Model ----
(***************************************************************************)
(* File Creator Service (src/server.py): the palette table, the asset and  *)
(* template registry, the four document composers and the create handlers. *)
(*                                                                         *)
(* Lengths are EMU (914400 per inch) as python-pptx computes them.         *)
(* An Optional[T] value is a sequence of length at most one: <<>> is None  *)
(* and <<v>> is the value v.                                               *)
(***************************************************************************)
EXTENDS Integers, Sequences, FiniteSets, TLC

VARIABLES
    logos,      \* ASSETS_DIR/logos: file name -> bytes
    images,     \* ASSETS_DIR/images: file name -> bytes
    templates,  \* TEMPLATES_DIR: template type -> (file name -> bytes)
    files,      \* FILES_DIR: file name -> the file
    now,        \* the clock that datetime.now() reads
    op,         \* the operation that ran last
    arg,        \* its input
    ret,        \* what it returned to its caller
    sweeper,    \* the cleanup_old_files task: whether it runs, when it wakes
    outside     \* files written next to FILES_DIR: relative path -> the file

vars == <<logos, images, templates, files, now, op, arg, ret, sweeper, outside>>
regVars == <<logos, images, templates>>

\* ---------------------------------------------------------------- Optional
None == <<>>
Some(v) == <<v>>
\* Python truthiness of an Optional[str] / Optional[list]: None, "" and []
\* are all falsy.
TruthyStr(o) == o # None /\ o[1] # ""
TruthyList(o) == o # None /\ o[1] # <<>>

\* ---------------------------------------------------------------- palettes
COLOR_PALETTES == [
    midnight_executive |-> [
        primary |-> <<1, 14, 2, 7, 6, 1>>,
        secondary |-> <<12, 10, 13, 12, 15, 12>>,
        accent |-> <<15, 15, 15, 15, 15, 15>>,
        text_dark |-> <<1, 14, 2, 7, 6, 1>>,
        text_light |-> <<15, 15, 15, 15, 15, 15>> ],
    forest_moss |-> [
        primary |-> <<2, 12, 5, 15, 2, 13>>,
        secondary |-> <<9, 7, 11, 12, 6, 2>>,
        accent |-> <<15, 5, 15, 5, 15, 5>>,
        text_dark |-> <<2, 12, 5, 15, 2, 13>>,
        text_light |-> <<15, 15, 15, 15, 15, 15>> ],
    coral_energy |-> [
        primary |-> <<15, 9, 6, 1, 6, 7>>,
        secondary |-> <<15, 9, 14, 7, 9, 5>>,
        accent |-> <<2, 15, 3, 12, 7, 14>>,
        text_dark |-> <<2, 15, 3, 12, 7, 14>>,
        text_light |-> <<15, 15, 15, 15, 15, 15>> ],
    warm_terracotta |-> [
        primary |-> <<11, 8, 5, 0, 4, 2>>,
        secondary |-> <<14, 7, 14, 8, 13, 1>>,
        accent |-> <<10, 7, 11, 14, 10, 14>>,
        text_dark |-> <<11, 8, 5, 0, 4, 2>>,
        text_light |-> <<15, 15, 15, 15, 15, 15>> ],
    ocean_gradient |-> [
        primary |-> <<0, 6, 5, 10, 8, 2>>,
        secondary |-> <<1, 12, 7, 2, 9, 3>>,
        accent |-> <<2, 1, 2, 9, 5, 12>>,
        text_dark |-> <<2, 1, 2, 9, 5, 12>>,
        text_light |-> <<15, 15, 15, 15, 15, 15>> ],
    charcoal_minimal |-> [
        primary |-> <<3, 6, 4, 5, 4, 15>>,
        secondary |-> <<15, 2, 15, 2, 15, 2>>,
        accent |-> <<2, 1, 2, 1, 2, 1>>,
        text_dark |-> <<2, 1, 2, 1, 2, 1>>,
        text_light |-> <<15, 15, 15, 15, 15, 15>> ],
    teal_trust |-> [
        primary |-> <<0, 2, 8, 0, 9, 0>>,
        secondary |-> <<0, 0, 10, 8, 9, 6>>,
        accent |-> <<0, 2, 12, 3, 9, 10>>,
        text_dark |-> <<0, 2, 8, 0, 9, 0>>,
        text_light |-> <<15, 15, 15, 15, 15, 15>> ],
    berry_cream |-> [
        primary |-> <<6, 13, 2, 14, 4, 6>>,
        secondary |-> <<10, 2, 6, 7, 6, 9>>,
        accent |-> <<14, 12, 14, 2, 13, 0>>,
        text_dark |-> <<6, 13, 2, 14, 4, 6>>,
        text_light |-> <<15, 15, 15, 15, 15, 15>> ],
    corporate_blue |-> [
        primary |-> <<0, 0, 3, 3, 6, 6>>,
        secondary |-> <<0, 0, 6, 6, 12, 12>>,
        accent |-> <<15, 15, 9, 9, 0, 0>>,
        text_dark |-> <<0, 0, 3, 3, 6, 6>>,
        text_light |-> <<15, 15, 15, 15, 15, 15>> ]
 ]

\* a slip in the default: the first palette of the table instead of corporate_blue
resolve_palette_first_default(name) ==
    IF name \in DOMAIN COLOR_PALETTES
    THEN COLOR_PALETTES[name]
    ELSE COLOR_PALETTES["midnight_executive"]

\* COLOR_PALETTES.get(name, COLOR_PALETTES["corporate_blue"])
resolve_palette(name) ==
    IF name \in DOMAIN COLOR_PALETTES
    THEN COLOR_PALETTES[name]
    ELSE COLOR_PALETTES["corporate_blue"]

\* hex_to_rgb: a six-digit hex string (its digits) to the (r, g, b) triple.
hex_to_rgb(hex_color) ==
    << hex_color[1] * 16 + hex_color[2],
       hex_color[3] * 16 + hex_color[4],
       hex_color[5] * 16 + hex_color[6] >>

\* ---------------------------------------------------------------- registry
\* A path below ASSETS_DIR or TEMPLATES_DIR.
Path(dir, name) == [dir |-> dir, name |-> name]

LOGO_EXTENSIONS == <<".png", ".jpg", ".jpeg", ".svg">>

RECURSIVE probe_extensions(_, _, _)
\* the for loop of get_logo_path, from extension number k on
probe_extensions(logo_name, k, dir) ==
    IF k > Len(LOGO_EXTENSIONS) THEN None
    ELSE IF (logo_name \o LOGO_EXTENSIONS[k]) \in DOMAIN dir
         THEN Some(Path("logos", logo_name \o LOGO_EXTENSIONS[k]))
         ELSE probe_extensions(logo_name, k + 1, dir)

\* a slip in the probing order: the extensions are tried before the exact name
get_logo_path_extension_first(logo_name, dir) ==
    IF ~TruthyStr(logo_name) THEN None
    ELSE IF probe_extensions(logo_name[1], 1, dir) # None
         THEN probe_extensions(logo_name[1], 1, dir)
    ELSE IF logo_name[1] \in DOMAIN dir THEN Some(Path("logos", logo_name[1]))
    ELSE None

get_logo_path(logo_name, dir) ==
    IF ~TruthyStr(logo_name) THEN None
    ELSE IF logo_name[1] \in DOMAIN dir THEN Some(Path("logos", logo_name[1]))
    ELSE probe_extensions(logo_name[1], 1, dir)

get_template_path(template_name, template_type, tdir) ==
    IF ~TruthyStr(template_name) THEN None
    ELSE IF template_type \in DOMAIN tdir
            /\ template_name[1] \in DOMAIN tdir[template_type]
         THEN Some(Path(template_type, template_name[1]))
         ELSE None

\* "if x.image_path: img_path = ASSETS_DIR / 'images' / x.image_path;
\*  if img_path.exists(): ..." of the composers
get_image_path(image_path, dir) ==
    IF ~TruthyStr(image_path) THEN None
    ELSE IF image_path[1] \in DOMAIN dir THEN Some(Path("images", image_path[1]))
    ELSE None

\* open(path, "wb") + copyfileobj: the entry is created or overwritten
write_file(dir, name, bytes) ==
    [n \in DOMAIN dir \cup {name} |-> IF n = name THEN bytes ELSE dir[n]]

EmptyDir == [n \in {} |-> 0]

\* ------------------------------------------------------------ clock, names
\* The clock counts hours; a day has 24 of them and a month 30 days.
HOURS_PER_DAY == 24
DAYS_PER_MONTH == 30
\* datetime.now().strftime("%Y%m%d_%H%M%S")
strftime_timestamp(t) == ToString(t)
\* datetime.now().strftime('%d.%m.%Y')
strftime_date(t) == "day" \o ToString(t \div HOURS_PER_DAY)
\* a slip in the format: the month stamp carries the hour as well
strftime_month_with_hour(t) == "month" \o ToString(t)

\* datetime.now().strftime('%B %Y')
strftime_month(t) == "month" \o ToString(t \div (HOURS_PER_DAY * DAYS_PER_MONTH))

\* generate_filename: f"{prefix}_{timestamp}_{unique_id}.{extension}", where
\* unique_id is uuid.uuid4().hex[:8]
generate_filename(prefix, extension, t, unique_id) ==
    prefix \o "_" \o strftime_timestamp(t) \o "_" \o unique_id \o "." \o extension

\* An exception raised inside a composer.
Raise(error) == [ok |-> FALSE, error |-> error]
\* A composer's in-memory document, ready to be saved.
Built(kind, prefix, body) == [ok |-> TRUE, kind |-> kind, prefix |-> prefix, body |-> body]

\* ------------------------------------------------------------------ lengths
\* pptx.util.Inches of a length given in thousandths of an inch:
\* int(inches * 914400)
Inches(milli) == (milli * 9144) \div 10

\* ------------------------------------------------- presentation: the shapes
\* A new text frame holds one empty paragraph.
EmptyPara == [text |-> "", size |-> None, bold |-> None, color |-> None, align |-> None]
Para(text, size, bold, color, align) ==
    [text |-> text, size |-> Some(size), bold |-> bold, color |-> Some(color), align |-> align]
\* slide.shapes.add_textbox(left, top, width, height)
TextBox(role, left, top, width, height, paragraphs) ==
    [type |-> "textbox", role |-> role, left |-> left, top |-> top,
     width |-> width, height |-> height, paragraphs |-> paragraphs]
\* slide.shapes.add_shape(MSO_SHAPE.RECTANGLE | OVAL, ...) with a solid fill
AutoShape(shape, role, left, top, width, height, fill) ==
    [type |-> shape, role |-> role, left |-> left, top |-> top,
     width |-> width, height |-> height, fill |-> fill]
\* slide.shapes.add_picture(path, left, top, width=width)
Picture(role, path, left, top, width) ==
    [type |-> "picture", role |-> role, path |-> path, left |-> left, top |-> top,
     width |-> width]

SLIDE_WIDTH == Inches(13333)
SLIDE_HEIGHT == Inches(7500)
WHITE == <<255, 255, 255>>

\* ------------------------------------------ presentation: _add_standard_content
\* Inches(i * 0.7): the product is a binary floating point number, which for
\* these i falls just below the decimal value and is truncated one EMU lower.
ROUNDED_DOWN == {3, 6, 7, 11, 12, 14}
\* a slip in the step: the height of a bullet box instead of the row height
bullet_offset_box_height(i) == Inches(i * 600) - (IF i \in ROUNDED_DOWN THEN 1 ELSE 0)

bullet_offset(i) == Inches(i * 700) - (IF i \in ROUNDED_DOWN THEN 1 ELSE 0)

RECURSIVE bullet_shapes(_, _, _, _)
\* the loop over content.bullet_points, from bullet number i (0-based) on
bullet_shapes(points, i, bullet_y, palette) ==
    IF i >= Len(points) THEN <<>>
    ELSE << TextBox("bullet", Inches(750), bullet_y + bullet_offset(i),
                    Inches(11800), Inches(600),
                    << Para("    " \o points[i + 1], 16, None,
                            hex_to_rgb(palette.text_dark), None) >>),
            AutoShape("oval", "bullet_marker", Inches(750),
                      bullet_y + bullet_offset(i) + Inches(100),
                      Inches(250), Inches(250), hex_to_rgb(palette.secondary)) >>
         \o bullet_shapes(points, i + 1, bullet_y, palette)

\* a slip in the guard: the body text box is added even without body text
add_standard_content_always_body(content, palette) ==
    << TextBox("content", Inches(750), Inches(1600), Inches(11800), Inches(4500),
               << IF TruthyStr(content.content)
                  THEN Para(content.content[1], 18, None, hex_to_rgb(palette.text_dark), None)
                  ELSE EmptyPara >>) >>
    \o (IF TruthyList(content.bullet_points)
        THEN bullet_shapes(content.bullet_points[1], 0,
                           IF ~TruthyStr(content.content) THEN Inches(1600) ELSE Inches(3000),
                           palette)
        ELSE <<>>)

add_standard_content(content, palette) ==
    LET y_start == Inches(1600)
        body == IF TruthyStr(content.content)
                THEN << TextBox("content", Inches(750), y_start, Inches(11800), Inches(4500),
                                << Para(content.content[1], 18, None,
                                        hex_to_rgb(palette.text_dark), None) >>) >>
                ELSE <<>>
        bullet_y == IF ~TruthyStr(content.content) THEN y_start ELSE Inches(3000)
        bullets == IF TruthyList(content.bullet_points)
                   THEN bullet_shapes(content.bullet_points[1], 0, bullet_y, palette)
                   ELSE <<>>
    IN body \o bullets

\* ----------------------------------------- presentation: _add_two_column_content
\* A value of a field typed Any: a str, an int or a dict.
PyStr(v) == [type |-> "str", v |-> v]
PyInt(v) == [type |-> "int", v |-> v]
PyDict == [type |-> "dict", v |-> "{...}"]
\* Python truthiness of an Optional[Any]
TruthyAny(o) ==
    /\ o # None
    /\ \/ o[1].type = "str" /\ o[1].v # ""
       \/ o[1].type = "int" /\ o[1].v # 0
       \/ o[1].type = "dict"

\* A column is a dict; its "title" and "content" entries may be missing.
fill_column(role, left, col_data, palette) ==
    LET first == IF TruthyAny(col_data.title)
                 THEN Para(col_data.title[1].v, 20, Some(TRUE),
                           hex_to_rgb(palette.primary), None)
                 ELSE EmptyPara
        rest == IF TruthyAny(col_data.content)
                THEN << Para(col_data.content[1].v, 14, None,
                             hex_to_rgb(palette.text_dark), None) >>
                ELSE <<>>
    IN TextBox(role, left, Inches(1600), Inches(5500), Inches(5000), <<first>> \o rest)

\* "para.text = col_data[...]" raises when the value is not a str
fill_column_raises(col_data) ==
    \/ TruthyAny(col_data.title) /\ col_data.title[1].type # "str"
    \/ TruthyAny(col_data.content) /\ col_data.content[1].type # "str"

add_two_column_content(content, palette) ==
    IF TruthyList(content.columns) /\ Len(content.columns[1]) >= 2
    THEN << fill_column("left_column", Inches(750), content.columns[1][1], palette),
            fill_column("right_column", Inches(7000), content.columns[1][2], palette) >>
    ELSE <<>>

\* ---------------------------------------------- presentation: _add_stats_content
\* start_x = 0.75 and the right bound 12 of "stat_width = (12 - 0.75) / num_stats",
\* in thousandths of an inch
START_X == 750
STATS_RIGHT == 12000
STAT_GAP == 300

\* Inches(start_x + i * stat_width)
stat_x(i, num_stats) ==
    ((START_X * num_stats + i * (STATS_RIGHT - START_X)) * 9144) \div (10 * num_stats)
\* a slip in the box width: the 0.3 inch gap is not subtracted
stat_box_width_no_gap(num_stats) ==
    ((STATS_RIGHT - START_X) * 9144) \div (10 * num_stats) + 1

\* Inches(stat_width - 0.3)
stat_box_width(num_stats) ==
    (((STATS_RIGHT - START_X) - STAT_GAP * num_stats) * 9144) \div (10 * num_stats)

\* stat.get(key, "")
dict_get(entry, default) == IF entry = None THEN default ELSE entry[1]

RECURSIVE stat_shapes(_, _, _)
\* the loop over content.stats, from block number i (0-based) on
stat_shapes(stats, i, palette) ==
    IF i >= Len(stats) THEN <<>>
    ELSE << TextBox("stat_value", stat_x(i, Len(stats)), Inches(2500),
                    stat_box_width(Len(stats)), Inches(1500),
                    << Para(dict_get(stats[i + 1].value, ""), 60, Some(TRUE),
                            hex_to_rgb(palette.primary), Some("center")) >>),
            TextBox("stat_label", stat_x(i, Len(stats)), Inches(4200),
                    stat_box_width(Len(stats)), Inches(800),
                    << Para(dict_get(stats[i + 1].label, ""), 16, None,
                            hex_to_rgb(palette.text_dark), Some("center")) >>) >>
         \o stat_shapes(stats, i + 1, palette)

add_stats_content(content, palette) ==
    IF ~TruthyList(content.stats) THEN <<>>
    ELSE stat_shapes(content.stats[1], 0, palette)

\* --------------------------------- presentation: _add_image_left/right_content
image_text_box(left, content, palette) ==
    TextBox("content", left, Inches(1600), Inches(6000), Inches(5000),
            << IF TruthyStr(content.content)
               THEN Para(content.content[1], 16, None, hex_to_rgb(palette.text_dark), None)
               ELSE EmptyPara >>)

slide_image(left, content, dir) ==
    IF get_image_path(content.image_path, dir) # None
    THEN << Picture("image", get_image_path(content.image_path, dir)[1],
                    left, Inches(1600), Inches(5500)) >>
    ELSE <<>>

add_image_left_content(content, palette, dir) ==
    slide_image(Inches(500), content, dir) \o << image_text_box(Inches(6500), content, palette) >>

add_image_right_content(content, palette, dir) ==
    << image_text_box(Inches(750), content, palette) >> \o slide_image(Inches(7300), content, dir)

add_two_column_raises(content) ==
    /\ TruthyList(content.columns) /\ Len(content.columns[1]) >= 2
    /\ \/ fill_column_raises(content.columns[1][1])
       \/ fill_column_raises(content.columns[1][2])

\* ------------------------------------- presentation: create_professional_pptx
\* "Content based on layout": the if / elif chain over slide_content.layout
layout_content(slide_content, palette, dir) ==
    IF slide_content.layout = "title_content" THEN add_standard_content(slide_content, palette)
    ELSE IF slide_content.layout = "two_column" THEN add_two_column_content(slide_content, palette)
    ELSE IF slide_content.layout = "stats" THEN add_stats_content(slide_content, palette)
    ELSE IF slide_content.layout = "image_left"
         THEN add_image_left_content(slide_content, palette, dir)
    ELSE IF slide_content.layout = "image_right"
         THEN add_image_right_content(slide_content, palette, dir)
    ELSE add_standard_content(slide_content, palette)

\* a slip in the guard: the picture is placed whether or not the logo resolved
logo_picture_unguarded(logo_path, left, top, width) ==
    << Picture("logo", IF logo_path # None THEN logo_path[1] ELSE Path("logos", ""),
               left, top, width) >>

logo_picture(logo_path, left, top, width) ==
    IF logo_path # None THEN << Picture("logo", logo_path[1], left, top, width) >> ELSE <<>>

title_slide(request, palette, logo_path, t) ==
    << AutoShape("rectangle", "background", 0, 0, SLIDE_WIDTH, SLIDE_HEIGHT,
                 hex_to_rgb(palette.primary)),
       TextBox("title", Inches(750), Inches(2500), Inches(11800), Inches(1500),
               << Para(request.title, 44, Some(TRUE), hex_to_rgb(palette.text_light),
                       Some("left")) >>) >>
    \o (IF TruthyStr(request.subtitle)
        THEN << TextBox("subtitle", Inches(750), Inches(4200), Inches(11800), Inches(800),
                        << Para(request.subtitle[1], 24, None,
                                hex_to_rgb(palette.secondary), Some("left")) >>) >>
        ELSE <<>>)
    \o logo_picture(logo_path, Inches(10500), Inches(500), Inches(2000))
    \o (IF TruthyStr(request.author)
        THEN << TextBox("author", Inches(750), Inches(6500), Inches(6000), Inches(500),
                        << Para(request.author[1] \o " | " \o strftime_month(t), 14, None,
                                hex_to_rgb(palette.accent), None) >>) >>
        ELSE <<>>)

content_slide(slide_content, palette, logo_path, dir) ==
    << AutoShape("rectangle", "background", 0, 0, SLIDE_WIDTH, SLIDE_HEIGHT, WHITE),
       AutoShape("rectangle", "accent_bar", 0, 0, SLIDE_WIDTH, Inches(100),
                 hex_to_rgb(palette.primary)),
       TextBox("title", Inches(750), Inches(500), Inches(11800), Inches(900),
               << Para(slide_content.title, 36, Some(TRUE),
                       hex_to_rgb(palette.text_dark), None) >>) >>
    \o layout_content(slide_content, palette, dir)
    \o logo_picture(logo_path, Inches(11500), Inches(6800), Inches(1200))

\* a slip in the closing slide: the logo is left out
closing_slide_without_logo(palette, logo_path) ==
    << AutoShape("rectangle", "background", 0, 0, SLIDE_WIDTH, SLIDE_HEIGHT,
                 hex_to_rgb(palette.primary)),
       TextBox("thanks", Inches(750), Inches(3000), Inches(11800), Inches(1500),
               << Para("Vielen Dank!", 54, Some(TRUE), hex_to_rgb(palette.text_light),
                       Some("center")) >>) >>

closing_slide(palette, logo_path) ==
    << AutoShape("rectangle", "background", 0, 0, SLIDE_WIDTH, SLIDE_HEIGHT,
                 hex_to_rgb(palette.primary)),
       TextBox("thanks", Inches(750), Inches(3000), Inches(11800), Inches(1500),
               << Para("Vielen Dank!", 54, Some(TRUE), hex_to_rgb(palette.text_light),
                       Some("center")) >>) >>
    \o logo_picture(logo_path, Inches(5500), Inches(5000), Inches(2500))

\* The composer up to "# Save": the deck, or the exception it raises.
create_professional_pptx(request, logo_dir, image_dir, t) ==
    LET palette == resolve_palette(request.color_palette)
        logo_path == get_logo_path(request.logo, logo_dir)
    IN
    IF \E i \in 1..Len(request.slides) :
           request.slides[i].layout = "two_column" /\ add_two_column_raises(request.slides[i])
    THEN Raise("TypeError")
    ELSE Built("pptx", "presentation",
               [slide_width |-> SLIDE_WIDTH, slide_height |-> SLIDE_HEIGHT,
                slides |->
                    << title_slide(request, palette, logo_path, t) >>
                    \o [i \in 1..Len(request.slides) |->
                           content_slide(request.slides[i], palette, logo_path, image_dir)]
                    \o (IF request.include_closing
                        THEN << closing_slide(palette, logo_path) >> ELSE <<>>)])

\* ---------------------------------------------- word document: the elements
\* doc.add_heading(text, level)
DocHeading(role, text, level, align) ==
    [type |-> "heading", role |-> role, text |-> text, level |-> level, align |-> align]
\* doc.add_paragraph(text, style)
DocParagraph(role, text, style, align, size, italic) ==
    [type |-> "paragraph", role |-> role, text |-> text, style |-> style,
     align |-> align, size |-> size, italic |-> italic]
\* doc.add_picture(path, width)
DocPicture(role, path, width) == [type |-> "picture", role |-> role, path |-> path, width |-> width]
DocPageBreak == [type |-> "page_break", role |-> "toc"]
\* Document(template_path): the body starts as the template's body
DocTemplateBody(template_path) ==
    IF template_path # None
    THEN << [type |-> "template", role |-> "template", path |-> template_path[1]] >>
    ELSE <<>>

\* _add_table_to_doc: doc.add_table(rows=len(table_data), cols=len(table_data[0]))
\* and one cell text per value; the first row's runs are bold.
add_table_to_doc(table_data) ==
    IF table_data = <<>> THEN <<>>
    ELSE << [type |-> "table", role |-> "table", style |-> "Table Grid",
             rows |-> Len(table_data), cols |-> Len(table_data[1]),
             cells |-> [i \in 1..Len(table_data) |->
                          [j \in 1..Len(table_data[1]) |->
                              IF j <= Len(table_data[i])
                              THEN [text |-> table_data[i][j], bold |-> (i = 1)]
                              ELSE [text |-> "", bold |-> FALSE]]]] >>

\* table.rows[i].cells[j] of a row longer than the first raises IndexError
add_table_raises(table_data) ==
    /\ table_data # <<>>
    /\ \E i \in 1..Len(table_data) : Len(table_data[i]) > Len(table_data[1])

\* the body of the loop over request.sections
section_elements(section, image_dir) ==
    (IF TruthyStr(section.heading)
     THEN << DocHeading("section_heading", section.heading[1], section.heading_level, None) >>
     ELSE <<>>)
    \o (IF TruthyStr(section.content)
        THEN << DocParagraph("content", section.content[1], None, None, None, None) >>
        ELSE <<>>)
    \o (IF TruthyList(section.bullet_points)
        THEN [k \in 1..Len(section.bullet_points[1]) |->
                 DocParagraph("bullet", section.bullet_points[1][k], Some("List Bullet"),
                              None, None, None)]
        ELSE <<>>)
    \o (IF TruthyList(section.table) THEN add_table_to_doc(section.table[1]) ELSE <<>>)
    \o (IF get_image_path(section.image_path, image_dir) # None
        THEN << DocPicture("image", get_image_path(section.image_path, image_dir)[1], 5000) >>
        ELSE <<>>)

\* doc.add_heading raises ValueError unless 0 <= level <= 9
section_raises(section) ==
    \/ TruthyStr(section.heading) /\ section.heading_level \notin 0..9
    \/ TruthyList(section.table) /\ add_table_raises(section.table[1])

RECURSIVE Flatten(_)
\* the concatenation of a sequence of sequences
Flatten(seqs) == IF seqs = <<>> THEN <<>> ELSE Head(seqs) \o Flatten(Tail(seqs))

\* The composer up to "# Save": the document, or the exception it raises.
create_professional_docx(request, logo_dir, image_dir, template_dir, t) ==
    LET template_path == get_template_path(request.template, "docx", template_dir)
        logo_path == get_logo_path(request.logo, logo_dir)
    IN
    IF \E i \in 1..Len(request.sections) : section_raises(request.sections[i])
    THEN Raise("ValueError or IndexError")
    ELSE Built("docx", "document",
               [body |->
                    DocTemplateBody(template_path)
                    \o (IF logo_path # None
                        THEN << DocPicture("logo", logo_path[1], 2000),
                                DocParagraph("logo_spacer", "", None, None, None, None) >>
                        ELSE <<>>)
                    \o << DocHeading("title", request.title, 0, Some("center")) >>
                    \o (IF TruthyStr(request.subtitle)
                        THEN << DocParagraph("subtitle", request.subtitle[1], None,
                                             Some("center"), Some(14), Some(TRUE)) >>
                        ELSE <<>>)
                    \o (IF TruthyStr(request.author)
                        THEN << DocParagraph("author",
                                             request.author[1] \o " | " \o strftime_date(t),
                                             None, Some("center"), None, None) >>
                        ELSE <<>>)
                    \o << DocParagraph("spacer", "", None, None, None, None) >>
                    \o (IF request.include_toc
                        THEN << DocHeading("toc", "Inhaltsverzeichnis", 1, None),
                                DocParagraph("toc",
                                    "[Inhaltsverzeichnis wird nach dem Oeffnen in Word aktualisiert]",
                                    None, None, None, None),
                                DocPageBreak >>
                        ELSE <<>>)
                    \o Flatten([i \in 1..Len(request.sections) |->
                                   section_elements(request.sections[i], image_dir)]),
                header |-> IF TruthyStr(request.header_text)
                           THEN Some([text |-> request.header_text[1], align |-> "right"])
                           ELSE None,
                footer |-> IF TruthyStr(request.footer_text)
                           THEN Some([text |-> request.footer_text[1], align |-> "center"])
                           ELSE None])

\* -------------------------------------------------- spreadsheet: the cells
\* A cell reference is <<row, column>>; a sheet's cells are a function of the
\* references that exist.
BlankCell == [value |-> None, font |-> None, fill |-> None, align |-> None, border |-> None]
cell_at(cells, ref) == IF ref \in DOMAIN cells THEN cells[ref] ELSE BlankCell
put_cell(cells, ref, c) ==
    [x \in DOMAIN cells \cup {ref} |-> IF x = ref THEN c ELSE cells[x]]
NoCells == [x \in {} |-> BlankCell]

COLUMN_LETTERS == <<"A", "B", "C", "D", "E", "F">>
get_column_letter(col) == COLUMN_LETTERS[col]

SetMax(S) == CHOOSE x \in S : \A y \in S : y <= x
\* ws.max_column: 1 for a sheet without cells
max_column(cells) ==
    IF DOMAIN cells = {} THEN 1 ELSE SetMax({ref[2] : ref \in DOMAIN cells})

\* header_fill, chosen by request.style
header_fill(style) ==
    IF style = "financial" THEN "1E3A5F"
    ELSE IF style = "minimal" THEN "666666"
    ELSE "003366"
HEADER_FONT == [bold |-> TRUE, color |-> "FFFFFF", size |-> 11]
THIN_BORDER == "thin"

RECURSIVE write_headers(_, _, _, _, _)
\* "for col, header in enumerate(sheet_config.headers, 1)", from column col on
write_headers(cells, headers, col, current_row, style) ==
    IF col > Len(headers) THEN cells
    ELSE write_headers(
            put_cell(cells, <<current_row, col>>,
                     [value |-> Some([type |-> "str", v |-> headers[col]]),
                      font |-> Some(HEADER_FONT),
                      fill |-> Some(header_fill(style)),
                      align |-> Some([horizontal |-> "center", vertical |-> Some("center")]),
                      border |-> Some(THIN_BORDER)]),
            headers, col + 1, current_row, style)

\* isinstance(value, (int, float))
is_number(value) == value.type = "int"

RECURSIVE write_row(_, _, _, _)
\* "for col, value in enumerate(row_data, 1)", from column col on
write_row(cells, row_data, col, current_row) ==
    IF col > Len(row_data) THEN cells
    ELSE write_row(
            put_cell(cells, <<current_row, col>>,
                     [cell_at(cells, <<current_row, col>>) EXCEPT
                        !.value = Some(row_data[col]),
                        !.border = Some(THIN_BORDER),
                        !.align = Some([horizontal |-> IF is_number(row_data[col])
                                                       THEN "center" ELSE "left",
                                        vertical |-> None])]),
            row_data, col + 1, current_row)

RECURSIVE write_data(_, _, _, _)
\* "for row_data in sheet_config.data", from data row number r on
write_data(cells, data, r, current_row) ==
    IF r > Len(data) THEN cells
    ELSE write_data(write_row(cells, data[r], 1, current_row), data, r + 1, current_row + 1)

RECURSIVE write_formulas(_, _, _)
\* "for cell_ref, formula in sheet_config.formulas.items()", from entry k on
write_formulas(cells, formulas, k) ==
    IF k > Len(formulas) THEN cells
    ELSE write_formulas(
            put_cell(cells, formulas[k].cell_ref,
                     [cell_at(cells, formulas[k].cell_ref) EXCEPT
                        !.value = Some([type |-> "str", v |-> formulas[k].formula]),
                        !.font = Some([bold |-> TRUE, color |-> "default", size |-> 11])]),
            formulas, k + 1)

\* ws.cell(..., value=value) raises ValueError for a value it cannot convert
data_raises(data) ==
    \E r \in 1..Len(data) : \E c \in 1..Len(data[r]) : data[r][c].type = "dict"

\* ------------------------------------------------- spreadsheet: _create_chart
RECURSIVE split(_, _)
\* str.split(sep) of a string given as its sequence of characters
split(str, sep) ==
    IF \A k \in 1..Len(str) : str[k] # sep THEN << str >>
    ELSE LET k == CHOOSE i \in 1..Len(str) :
                      str[i] = sep /\ \A j \in 1..(i - 1) : str[j] # sep
         IN << SubSeq(str, 1, k - 1) >> \o split(SubSeq(str, k + 1, Len(str)), sep)

\* a slip in the part count: a range of three or more parts is accepted
create_chart_two_or_more(config) ==
    IF Len(split(config.data_range, ":")) < 2 THEN None
    ELSE Some([type |-> IF config.type \in {"bar", "line", "pie"} THEN config.type ELSE "bar",
               title |-> config.title,
               style |-> 10])

\* None for a data_range that does not split into two parts, else the chart
create_chart(config) ==
    IF Len(split(config.data_range, ":")) # 2 THEN None
    ELSE Some([type |-> IF config.type \in {"bar", "line", "pie"} THEN config.type ELSE "bar",
               title |-> config.title,
               style |-> 10])

RECURSIVE add_charts(_, _, _)
\* "for chart_config in sheet_config.charts", from chart number k on
add_charts(charts, configs, k) ==
    IF k > Len(configs) THEN charts
    ELSE add_charts(
            IF create_chart(configs[k]) # None
            THEN Append(charts, [chart |-> create_chart(configs[k])[1],
                                 anchor |-> configs[k].position])
            ELSE charts,
            configs, k + 1)

\* ------------------------------------- spreadsheet: create_professional_xlsx
NewSheet(name) == [name |-> name, cells |-> NoCells, widths |-> [c \in {} |-> 0],
                   charts |-> <<>>, images |-> <<>>]

\* Optional[Dict]: an empty dict is falsy
TruthyDict(o) == o # None /\ DOMAIN o[1] # {}

\* a slip in the row counter: the header row is not counted
first_data_row_unmoved(has_headers) == 1

\* current_row when the data rows are written: 1, moved on by the header row
first_data_row(has_headers) == IF has_headers THEN 2 ELSE 1

\* the body of the loop over request.sheets, applied to the worksheet ws
compose_sheet(ws, sheet_config, style) ==
    LET has_headers == TruthyList(sheet_config.headers)
        after_headers == IF has_headers
                         THEN write_headers(ws.cells, sheet_config.headers[1], 1, 1, style)
                         ELSE ws.cells
        data_row == first_data_row(has_headers)
        after_data == IF TruthyList(sheet_config.data)
                      THEN write_data(after_headers, sheet_config.data[1], 1, data_row)
                      ELSE after_headers
        after_formulas == IF TruthyList(sheet_config.formulas)
                          THEN write_formulas(after_data, sheet_config.formulas[1], 1)
                          ELSE after_data
        widths == IF TruthyDict(sheet_config.column_widths)
                  THEN [c \in DOMAIN ws.widths \cup DOMAIN sheet_config.column_widths[1] |->
                           IF c \in DOMAIN sheet_config.column_widths[1]
                           THEN sheet_config.column_widths[1][c] ELSE ws.widths[c]]
                  ELSE LET auto == {get_column_letter(col) : col \in 1..max_column(after_formulas)}
                       IN [c \in DOMAIN ws.widths \cup auto |->
                              IF c \in auto THEN 15 ELSE ws.widths[c]]
    IN [ws EXCEPT !.cells = after_formulas,
                  !.widths = widths,
                  !.charts = IF TruthyList(sheet_config.charts)
                             THEN add_charts(ws.charts, sheet_config.charts[1], 1)
                             ELSE ws.charts]

sheetnames(wb) == {wb[k].name : k \in 1..Len(wb)}

RECURSIVE compose_sheets(_, _, _, _)
\* "for sheet_config in request.sheets", from sheet number i on
compose_sheets(wb, sheets, i, style) ==
    IF i > Len(sheets) THEN wb
    ELSE LET with_sheet == IF sheets[i].name \in sheetnames(wb) THEN wb
                           ELSE Append(wb, NewSheet(sheets[i].name))
             k == CHOOSE j \in 1..Len(with_sheet) : with_sheet[j].name = sheets[i].name
         IN compose_sheets(
               [with_sheet EXCEPT ![k] = compose_sheet(with_sheet[k], sheets[i], style)],
               sheets, i + 1, style)

\* load_workbook(template_path): the workbook stored in the template
TemplateWorkbook(bytes) ==
    << [NewSheet("Data") EXCEPT
          !.cells = put_cell(NoCells, <<1, 1>>,
                             [BlankCell EXCEPT !.value = Some([type |-> "str", v |-> bytes])]) ] >>

\* request.filename.replace('.xlsx', ''), the name being given as its parts
RECURSIVE Join(_)
Join(parts) == IF parts = <<>> THEN "" ELSE Head(parts) \o Join(Tail(parts))
filename_prefix(filename) == Join(SelectSeq(filename, LAMBDA part : part # ".xlsx"))

\* FILES_DIR / filename: the parts of a file name that are path separators
\* with the directory they lead to
DIRECTORY_PARTS == {"../", "sub/"}
\* the directories of the path FILES_DIR / filename below or above FILES_DIR
path_parents(filename) == SelectSeq(filename, LAMBDA part : part \in DIRECTORY_PARTS)
\* filepath.name up to the timestamp: what follows the last separator
path_name(filename) ==
    filename_prefix(SelectSeq(filename, LAMBDA part : part \notin DIRECTORY_PARTS))

\* The composer up to "# Save": the workbook, or the exception it raises.
create_professional_xlsx(request, logo_dir, template_dir) ==
    LET template_path == get_template_path(request.template, "xlsx", template_dir)
        wb0 == IF template_path # None
               THEN TemplateWorkbook(template_dir["xlsx"][template_path[1].name])
               ELSE IF request.sheets # <<>> THEN <<>> ELSE << NewSheet("Sheet") >>
        wb1 == compose_sheets(wb0, request.sheets, 1, request.style)
        logo_path == get_logo_path(request.logo, logo_dir)
    IN
    IF \E i \in 1..Len(request.sheets) :
           TruthyList(request.sheets[i].data) /\ data_raises(request.sheets[i].data[1])
    THEN Raise("ValueError")
    ELSE Built("xlsx", filename_prefix(request.filename),
               IF logo_path # None
               THEN [wb1 EXCEPT ![1].images =
                        Append(@, [role |-> "logo", path |-> logo_path[1], anchor |-> "A1",
                                   width |-> 150, height |-> 50])]
               ELSE wb1)

\* ------------------------------------------------ page document: flowables
\* Every flowable carries the number of the section it was made for (0 for
\* the logo, title and author lines that precede the sections).
Flowable(block, type, attrs) == [block |-> block, type |-> type, attrs |-> attrs]
RLParagraph(block, text, style) == Flowable(block, "paragraph", [text |-> text, style |-> style])
\* Spacer(1, height), the height in thousandths of an inch
RLSpacer(block, height) == Flowable(block, "spacer", [height |-> height])
RLImage(block, role, path, width, height) ==
    Flowable(block, "image", [role |-> role, path |-> path, width |-> width, height |-> height])
\* a slip in the flowable: a page break that is a spacer of no height
RLPageBreak_as_spacer(block) == Flowable(block, "spacer", [height |-> 0])

RLPageBreak(block) == Flowable(block, "page_break", [break |-> TRUE])

\* the ParagraphStyles added to the sample style sheet, and its 'Normal'
pdf_styles(palette) ==
    [CustomTitle |-> [name |-> "CustomTitle", fontSize |-> 24, textColor |-> hex_to_rgb(palette.primary)],
     CustomHeading1 |-> [name |-> "CustomHeading1", fontSize |-> 18, textColor |-> hex_to_rgb(palette.primary)],
     CustomHeading2 |-> [name |-> "CustomHeading2", fontSize |-> 14, textColor |-> hex_to_rgb(palette.secondary)],
     Normal |-> [name |-> "Normal", fontSize |-> 10, textColor |-> <<0, 0, 0>>]]

\* a slip in the style: the header row shaded with the secondary colour
pdf_table_style_secondary(palette) ==
    [header_background |-> hex_to_rgb(palette.secondary), header_text |-> "whitesmoke",
     body_background |-> "beige", body_text |-> "black", grid |-> "black"]

\* the TableStyle of a table block
pdf_table_style(palette) ==
    [header_background |-> hex_to_rgb(palette.primary), header_text |-> "whitesmoke",
     body_background |-> "beige", body_text |-> "black", grid |-> "black"]

\* one centimetre in thousandths of an inch (reportlab.lib.units.cm)
CM == 394

\* the if / elif chain over section.type: the flowables appended to the story
pdf_section_flowables(i, section, styles, palette, image_dir) ==
    IF section.type = "heading"
    THEN << RLParagraph(i, IF TruthyStr(section.content) THEN section.content[1] ELSE "",
                        IF section.level = 1 THEN styles.CustomHeading1
                        ELSE styles.CustomHeading2) >>
    ELSE IF section.type = "paragraph"
    THEN << RLParagraph(i, IF TruthyStr(section.content) THEN section.content[1] ELSE "",
                        styles.Normal),
            RLSpacer(i, 200) >>
    ELSE IF section.type = "table" /\ TruthyList(section.data)
    THEN << Flowable(i, "table", [data |-> section.data[1], style |-> pdf_table_style(palette)]),
            RLSpacer(i, 300) >>
    ELSE IF section.type = "image" /\ TruthyStr(section.image_path)
    THEN IF get_image_path(section.image_path, image_dir) # None
         THEN << RLImage(i, "image", get_image_path(section.image_path, image_dir)[1],
                         4000, 3000),
                 RLSpacer(i, 300) >>
         ELSE <<>>
    ELSE IF section.type = "spacer"
    THEN << RLSpacer(i, (IF section.height # None /\ section.height[1] # 0
                         THEN section.height[1] ELSE 1) * CM) >>
    ELSE IF section.type = "page_break"
    THEN << RLPageBreak(i) >>
    ELSE <<>>

\* Text that reportlab's paragraph parser rejects (an unbalanced tag):
\* Paragraph(text, style) raises ValueError for it.
MALFORMED_MARKUP == {"<b>unclosed"}

pdf_section_raises(section) ==
    /\ section.type \in {"heading", "paragraph"}
    /\ TruthyStr(section.content)
    /\ section.content[1] \in MALFORMED_MARKUP

\* create_professional_pdf up to "doc.build(story)": the story, or the
\* exception raised while the flowables are constructed.
create_professional_pdf(request, logo_dir, image_dir, t) ==
    LET palette == resolve_palette(request.color_scheme)
        styles == pdf_styles(palette)
        logo_path == get_logo_path(request.logo, logo_dir)
    IN
    IF \/ request.title \in MALFORMED_MARKUP
       \/ \E i \in 1..Len(request.sections) : pdf_section_raises(request.sections[i])
    THEN Raise("ValueError")
    ELSE Built("pdf", "document",
               [pagesize |-> IF request.page_size = "A4" THEN "A4" ELSE "letter",
                story |->
                    (IF logo_path # None
                     THEN << RLImage(0, "logo", logo_path[1], 2000, 750), RLSpacer(0, 500) >>
                     ELSE <<>>)
                    \o << RLParagraph(0, request.title, styles.CustomTitle) >>
                    \o (IF TruthyStr(request.author)
                        THEN << RLParagraph(0, "<i>" \o request.author[1] \o " | "
                                               \o strftime_date(t) \o "</i>", styles.Normal),
                                RLSpacer(0, 500) >>
                        ELSE <<>>)
                    \o Flatten([i \in 1..Len(request.sections) |->
                                   pdf_section_flowables(i, request.sections[i], styles,
                                                         palette, image_dir)])])

RECURSIVE paginate(_, _, _, _)
\* doc.build(story): the flowables are laid out in order; a hanging page
\* begin starts a page when the next flowable is handled, a PageBreak ends the
\* current page and hangs the next page begin, and a page begin still hanging
\* at the end of the story is dropped.  Every block is taken to fit its page.
paginate(story, k, pages, hanging) ==
    IF k > Len(story) THEN pages
    ELSE LET begun == IF hanging THEN Append(pages, <<>>) ELSE pages IN
         IF story[k].type = "page_break"
         THEN paginate(story, k + 1, begun, TRUE)
         ELSE paginate(story, k + 1,
                       [begun EXCEPT ![Len(begun)] = Append(@, story[k])], FALSE)

build(story) == paginate(story, 1, <<>>, TRUE)

\* ----------------------------------------------------------- create handlers
\* What the format library's save call can do:
\*   "saved"    the file is written completely;
\*   "refused"  the call raises before the target file exists;
\*   "aborted"  the call raises after it created the target file, part of the
\*              content written.
SaveOutcomes == {"saved", "refused", "aborted"}

\* the file a composer's save call leaves in FILES_DIR
saved_body(built) ==
    IF built.kind = "pdf"
    THEN [pagesize |-> built.body.pagesize, pages |-> build(built.body.story)]
    ELSE built.body

\* POST /create/<kind>: the composer runs inside try / except; an exception
\* becomes HTTPException(500, detail=str(e)).
\* The spreadsheet composer saves to FILES_DIR / generate_filename(prefix, ..)
\* with the prefix taken from the request: a prefix with path separators
\* names a file in another directory.  The save call raises when that
\* directory does not exist (FILES_DIR/sub never does, the parent of
\* FILES_DIR always does).  The response carries filepath.name.
Create(opname, request, built, unique_id, outcome) ==
    LET parents == IF opname = "create_xlsx" THEN path_parents(request.filename) ELSE <<>>
        relative_path == generate_filename(built.prefix, built.kind, now, unique_id)
        filename == IF parents = <<>> THEN relative_path
                    ELSE generate_filename(path_name(request.filename), built.kind,
                                           now, unique_id)
        written == [complete |-> outcome = "saved", kind |-> built.kind,
                    body |-> IF outcome = "saved" THEN Some(saved_body(built)) ELSE None,
                    mtime |-> now]
    IN
    /\ op' = opname
    /\ arg' = request
    /\ UNCHANGED <<regVars, now, sweeper>>
    /\ IF ~built.ok
       THEN /\ ret' = [status |-> 500, detail |-> built.error]
            /\ UNCHANGED <<files, outside>>
       ELSE IF \E k \in 1..Len(parents) : parents[k] # "../"
       THEN /\ ret' = [status |-> 500, detail |-> "FileNotFoundError"]
            /\ UNCHANGED <<files, outside>>
       ELSE IF outcome = "refused"
       THEN /\ ret' = [status |-> 500, detail |-> "OSError"]
            /\ UNCHANGED <<files, outside>>
       ELSE /\ IF parents = <<>>
               THEN files' = write_file(files, filename, written) /\ UNCHANGED outside
               ELSE outside' = write_file(outside, relative_path, written) /\ UNCHANGED files
            /\ ret' = IF outcome = "saved"
                      THEN [status |-> 200, success |-> TRUE, filename |-> filename,
                            download_url |-> "BASE_URL/files/" \o filename]
                      ELSE [status |-> 500, detail |-> "OSError"]

create_pptx(request, unique_id, outcome) ==
    Create("create_pptx", request,
           create_professional_pptx(request, logos, images, now), unique_id, outcome)

create_docx(request, unique_id, outcome) ==
    Create("create_docx", request,
           create_professional_docx(request, logos, images, templates, now),
           unique_id, outcome)

create_xlsx(request, unique_id, outcome) ==
    Create("create_xlsx", request,
           create_professional_xlsx(request, logos, templates), unique_id, outcome)

create_pdf(request, unique_id, outcome) ==
    Create("create_pdf", request,
           create_professional_pdf(request, logos, images, now), unique_id, outcome)

\* ------------------------------------------------------ composition: inputs
\* Bounds of the requests that are composed.
MaxBullets == 4
MaxStats == 4
MaxBlocks == 3

\* The registries a request is composed against.
LogoDirs == {EmptyDir, write_file(EmptyDir, "acme.png", "b1")}
ImageDirs == {EmptyDir, write_file(EmptyDir, "pic", "b1")}
NoTemplates == [t \in {} |-> EmptyDir]
TemplateDirs == {NoTemplates,
                 [t \in {"docx", "xlsx"} |-> write_file(EmptyDir, "report", "b1")]}
\* A logo field: missing, resolvable through the .png extension, unresolvable.
LogoRefs == {None, Some("acme"), Some("ghost")}
ImageRefs == {None, Some("pic"), Some("ghost")}
PaletteNames == (DOMAIN COLOR_PALETTES) \cup {"", "Corporate_Blue", "sunset"}

Prefixes(seq, lens) == {SubSeq(seq, 1, n) : n \in lens}
OptPrefixes(seq, max) == {None} \cup {Some(p) : p \in Prefixes(seq, 0..max)}

\* ---- presentation requests
BulletTexts == <<"p1", "p2", "p3", "p4", "p5">>
StatDicts == << [value |-> Some("95%"), label |-> Some("rate")],
                [value |-> Some("12"), label |-> None],
                [value |-> None, label |-> Some("only label")],
                [value |-> Some("7"), label |-> Some("seven")],
                [value |-> Some("8"), label |-> Some("eight")],
                [value |-> Some("9"), label |-> Some("nine")] >>
GoodColumn == [title |-> Some(PyStr("Left")), content |-> Some(PyStr("text"))]
BareColumn == [title |-> None, content |-> Some(PyStr("text"))]
BadColumn == [title |-> Some(PyInt(5)), content |-> None]
ColumnLists == {None, Some(<< GoodColumn >>), Some(<< GoodColumn, BareColumn >>),
                Some(<< GoodColumn, BadColumn >>)}
Layouts == {"title_content", "two_column", "stats", "image_left", "image_right",
            "comparison", ""}

BareSlide == [title |-> "Slide", content |-> None, bullet_points |-> None,
              layout |-> "title_content", image_path |-> None, stats |-> None,
              columns |-> None]

SlideSamples ==
    {[BareSlide EXCEPT !.layout = l, !.content = c, !.bullet_points = b, !.image_path = i] :
        l \in Layouts, c \in {None, Some("body")},
        b \in OptPrefixes(BulletTexts, MaxBullets), i \in ImageRefs}
    \cup {[BareSlide EXCEPT !.layout = l, !.content = c, !.stats = st] :
            l \in Layouts, c \in {None, Some("body")}, st \in OptPrefixes(StatDicts, MaxStats)}
    \cup {[BareSlide EXCEPT !.layout = l, !.content = c, !.columns = co] :
            l \in Layouts, c \in {None, Some("body")}, co \in ColumnLists}

BarePresentation == [title |-> "Deck", subtitle |-> None, author |-> None, slides |-> <<>>,
                     color_palette |-> "corporate_blue", logo |-> None,
                     include_toc |-> FALSE, include_closing |-> TRUE]

PresentationPaletteRequests ==
    {[BarePresentation EXCEPT !.color_palette = p, !.logo = l, !.slides = sl,
                              !.subtitle = Some("Sub"), !.author = Some("Ann")] :
        p \in PaletteNames, l \in LogoRefs, sl \in {<<>>, << BareSlide >>}}
PresentationHeaderRequests ==
    {[BarePresentation EXCEPT !.subtitle = su, !.author = au, !.logo = l,
                              !.include_toc = toc, !.include_closing = cl, !.slides = sl] :
        su \in {None, Some("Sub")}, au \in {None, Some("Ann")}, l \in LogoRefs,
        toc \in BOOLEAN, cl \in BOOLEAN, sl \in {<<>>, << BareSlide >>}}
PresentationSlideRequests ==
    {[BarePresentation EXCEPT !.color_palette = "forest_moss", !.logo = l,
                              !.include_closing = FALSE, !.slides = << s >>] :
        l \in LogoRefs, s \in SlideSamples}
PresentationDeckRequests ==
    {[BarePresentation EXCEPT !.logo = l, !.include_closing = cl, !.slides = << s1, s2 >>] :
        l \in LogoRefs, cl \in BOOLEAN,
        s1 \in {BareSlide, [BareSlide EXCEPT !.layout = "stats",
                                             !.stats = Some(SubSeq(StatDicts, 1, 2))]},
        s2 \in {[BareSlide EXCEPT !.title = "Second", !.content = Some("body")],
                [BareSlide EXCEPT !.title = "Second", !.layout = "image_left",
                                  !.image_path = Some("pic")]}}

\* ---- word document requests
MaxRows == 2
HeaderRow == <<"h1", "h2">>
TableSamples == {None, Some(<<>>), Some(<< HeaderRow >>), Some(<< HeaderRow, <<"a", "b">> >>),
                 Some(<< HeaderRow, <<"a">> >>), Some(<< HeaderRow, <<"a", "b", "c">> >>)}
BareSection == [heading |-> None, heading_level |-> 1, content |-> None,
                bullet_points |-> None, table |-> None, image_path |-> None]
SectionSamples ==
    {[BareSection EXCEPT !.heading = h, !.heading_level = lv, !.content = c,
                         !.bullet_points = b, !.table = t, !.image_path = i] :
        h \in {None, Some("Heading")}, lv \in {1, 2, 10}, c \in {None, Some("body")},
        b \in OptPrefixes(BulletTexts, MaxBullets), t \in TableSamples, i \in ImageRefs}
TemplateRefs == {None, Some("report"), Some("ghost")}
HeadingOnly == [BareSection EXCEPT !.heading = Some("Heading")]

BareDocument == [title |-> "Doc", subtitle |-> None, author |-> None, sections |-> <<>>,
                 template |-> None, logo |-> None, header_text |-> None,
                 footer_text |-> None, include_toc |-> FALSE]

WordHeaderRequests ==
    {[BareDocument EXCEPT !.subtitle = su, !.author = au, !.template = t, !.logo = l,
                          !.header_text = ht, !.footer_text = ft, !.include_toc = toc,
                          !.sections = se] :
        su \in {None, Some("Sub")}, au \in {None, Some("Ann")}, t \in TemplateRefs,
        l \in LogoRefs, ht \in {None, Some("head")}, ft \in {None, Some("foot")},
        toc \in BOOLEAN, se \in {<<>>, << HeadingOnly >>}}
WordSectionRequests ==
    {[BareDocument EXCEPT !.logo = l, !.sections = << s >>] :
        l \in LogoRefs, s \in SectionSamples}
WordSectionsRequests ==
    {[BareDocument EXCEPT !.logo = l, !.sections = << HeadingOnly, s >>] :
        l \in LogoRefs,
        s \in {[BareSection EXCEPT !.content = Some("body")],
               [BareSection EXCEPT !.table = Some(<< HeaderRow, <<"a", "b", "c">> >>)]}}

\* ---- spreadsheet requests
DataRows == << << PyInt(1), PyInt(2) >>, << PyStr("x"), PyInt(4) >>,
               << PyInt(5), PyStr("y"), PyStr("z") >>, << PyInt(7) >> >>
DataSamples == OptPrefixes(DataRows, MaxRows) \cup {Some(<< << PyInt(1) >>, << PyDict >> >>)}
HeaderSamples == {None, Some(<<>>), Some(<<"A", "B">>)}
FormulaSamples == {None,
                   Some(<< [cell_ref |-> <<5, 3>>, formula |-> "=SUM(C2:C4)"] >>),
                   Some(<< [cell_ref |-> <<1, 1>>, formula |-> "=1+1"] >>)}
WidthSamples == {None, Some([c \in {"A"} |-> 30])}
Chart(type, title, data_range, position) ==
    [type |-> type, title |-> title, data_range |-> data_range,
     categories_range |-> None, position |-> position]
GoodChart1 == Chart("bar", "first", <<"A", "1", ":", "B", "2">>, "E2")
GoodChart2 == Chart("pie", "second", <<"A", "1", ":", "A", "3">>, "E20")
OddChart == Chart("radar", "odd", <<":">>, "H2")
NoColonChart == Chart("line", "broken", <<"A", "1">>, "E40")
TwoColonChart == Chart("bar", "broken too", <<"A", "1", ":", "B", "2", ":", "C", "3">>, "E60")
ChartSamples == {None, Some(<<>>), Some(<< GoodChart1 >>), Some(<< NoColonChart >>),
                 Some(<< GoodChart1, NoColonChart, GoodChart2 >>),
                 Some(<< TwoColonChart, GoodChart2 >>), Some(<< OddChart, GoodChart1 >>),
                 Some(<< GoodChart1, GoodChart2 >>), Some(<< GoodChart2 >>),
                 Some(<< OddChart, GoodChart1, GoodChart2 >>)}
BareSheet == [name |-> "S1", headers |-> None, data |-> None, column_widths |-> None,
              charts |-> None, formulas |-> None, conditional_formatting |-> None]
SheetSamples ==
    {[BareSheet EXCEPT !.headers = h, !.data = d, !.formulas = f, !.column_widths = w,
                       !.charts = ch] :
        h \in HeaderSamples, d \in DataSamples, f \in FormulaSamples, w \in WidthSamples,
        ch \in ChartSamples}
FullSheet == [BareSheet EXCEPT !.headers = Some(<<"A", "B">>),
                               !.data = Some(SubSeq(DataRows, 1, 2))]

BareWorkbook == [filename |-> <<"report", ".xlsx">>, sheets |-> <<>>, template |-> None,
                 logo |-> None, style |-> "professional"]

ExcelHeaderRequests ==
    {[BareWorkbook EXCEPT !.filename = fn, !.sheets = sh, !.template = t, !.logo = l,
                          !.style = st] :
        fn \in {<<"report", ".xlsx">>, <<"report">>},
        sh \in {<<>>, << BareSheet >>, << FullSheet >>,
                << [FullSheet EXCEPT !.name = "Data"] >>},
        t \in TemplateRefs, l \in LogoRefs,
        st \in {"professional", "financial", "minimal", "other"}}
ExcelSheetRequests ==
    {[BareWorkbook EXCEPT !.sheets = << s >>] : s \in SheetSamples}
ExcelSheetsRequests ==
    {[BareWorkbook EXCEPT !.logo = l, !.sheets = << FullSheet, s >>] :
            l \in LogoRefs,
            s \in {[BareSheet EXCEPT !.name = "S2"],
                   [BareSheet EXCEPT !.name = "S2", !.headers = Some(<<"X">>),
                                     !.charts = Some(<< GoodChart1 >>)],
                   [BareSheet EXCEPT !.headers = Some(<<"X">>)],
                   [BareSheet EXCEPT !.data = Some(<< << PyStr("over") >> >>)]}}

\* ---- page document requests
BlockTypes == {"paragraph", "heading", "table", "image", "spacer", "page_break", "quote"}
BareBlock == [type |-> "paragraph", content |-> None, level |-> 1, data |-> None,
              image_path |-> None, height |-> None]
BlockSamples ==
    {[BareBlock EXCEPT !.type = ty, !.content = c, !.level = lv, !.data = d,
                       !.image_path = i, !.height = h] :
        ty \in BlockTypes, c \in {None, Some("text"), Some("<b>unclosed")}, lv \in {1, 2},
        d \in {None, Some(<< <<"a", "b">>, <<"c", "d">> >>)}, i \in ImageRefs,
        h \in {None, Some(2)}}
\* The blocks that sequences are built from.
BlockAlphabet == {[BareBlock EXCEPT !.content = Some("text")],
                  [BareBlock EXCEPT !.type = "heading", !.content = Some("Heading")],
                  [BareBlock EXCEPT !.type = "page_break"],
                  [BareBlock EXCEPT !.type = "quote", !.content = Some("quoted")],
                  [BareBlock EXCEPT !.type = "image", !.image_path = Some("pic")]}
BlockSequences == UNION {[1..n -> BlockAlphabet] : n \in 1..MaxBlocks}

BarePage == [title |-> "Report", author |-> None, sections |-> <<>>, page_size |-> "A4",
             logo |-> None, header_text |-> None, footer_text |-> None,
             color_scheme |-> "corporate_blue"]

PagePaletteRequests ==
    {[BarePage EXCEPT !.color_scheme = p, !.logo = l, !.sections = se] :
        p \in PaletteNames, l \in LogoRefs,
        se \in {<<>>, << BareBlock >>,
                << [BareBlock EXCEPT !.type = "heading", !.content = Some("Heading"),
                                     !.level = 2] >>}}
PageHeaderRequests ==
    {[BarePage EXCEPT !.title = ti, !.author = au, !.page_size = ps, !.logo = l] :
        ti \in {"Report", "<b>unclosed"}, au \in {None, Some("Ann")},
        ps \in {"A4", "letter", "B5"}, l \in LogoRefs}
PageBlockRequests ==
    {[BarePage EXCEPT !.sections = << b >>] : b \in BlockSamples}
PageSequenceRequests ==
    {[BarePage EXCEPT !.logo = l, !.sections = se] :
        l \in LogoRefs, se \in BlockSequences}

\* ---- the cases: a request of one kind, waiting to be handled, and the
\* registry and store it is handled against
OldFile == [complete |-> TRUE, kind |-> "pdf", body |-> None, mtime |-> 0]
Stores == {EmptyDir, write_file(EmptyDir, "document_0_0a0b0c0d.pdf", OldFile)}
UniqueIds == {"a1b2c3d4"}

InitCase(kind, requests, logo_dirs, image_dirs, template_dirs, stores) ==
    \E r \in requests, l \in logo_dirs, i \in image_dirs, t \in template_dirs, f \in stores :
        /\ logos = l
        /\ images = i
        /\ templates = t
        /\ files = f
        /\ now = 0
        /\ op = "request"
        /\ arg = [kind |-> kind, request |-> r]
        /\ ret = None
        /\ sweeper = [running |-> TRUE, wake |-> 0]
        /\ outside = EmptyDir

InitCompose ==
    \/ InitCase("pptx", PresentationPaletteRequests, LogoDirs, {EmptyDir}, {NoTemplates}, {EmptyDir})
    \/ InitCase("pptx", PresentationHeaderRequests, LogoDirs, {EmptyDir}, {NoTemplates}, Stores)
    \/ InitCase("pptx", PresentationSlideRequests, LogoDirs, ImageDirs, {NoTemplates}, {EmptyDir})
    \/ InitCase("pptx", PresentationDeckRequests, LogoDirs, ImageDirs, {NoTemplates}, {EmptyDir})
    \/ InitCase("docx", WordHeaderRequests, LogoDirs, {EmptyDir}, TemplateDirs, {EmptyDir})
    \/ InitCase("docx", WordSectionRequests, LogoDirs, ImageDirs, {NoTemplates}, {EmptyDir})
    \/ InitCase("docx", WordSectionsRequests, LogoDirs, {EmptyDir}, {NoTemplates}, Stores)
    \/ InitCase("xlsx", ExcelHeaderRequests, LogoDirs, {EmptyDir}, TemplateDirs, {EmptyDir})
    \/ InitCase("xlsx", ExcelSheetRequests, {EmptyDir}, {EmptyDir}, {NoTemplates}, {EmptyDir})
    \/ InitCase("xlsx", ExcelSheetsRequests, LogoDirs, {EmptyDir}, {NoTemplates}, Stores)
    \/ InitCase("pdf", PagePaletteRequests, LogoDirs, {EmptyDir}, {NoTemplates}, {EmptyDir})
    \/ InitCase("pdf", PageHeaderRequests, LogoDirs, {EmptyDir}, {NoTemplates}, Stores)
    \/ InitCase("pdf", PageBlockRequests, {EmptyDir}, ImageDirs, {NoTemplates}, {EmptyDir})
    \/ InitCase("pdf", PageSequenceRequests, LogoDirs, ImageDirs, {NoTemplates}, {EmptyDir})

Pending(kind) == op = "request" /\ arg.kind = kind

\* the handlers with a save call that succeeds
NextCompose ==
    \/ \E u \in UniqueIds : Pending("pptx") /\ create_pptx(arg.request, u, "saved")
    \/ \E u \in UniqueIds : Pending("docx") /\ create_docx(arg.request, u, "saved")
    \/ \E u \in UniqueIds : Pending("xlsx") /\ create_xlsx(arg.request, u, "saved")
    \/ \E u \in UniqueIds : Pending("pdf") /\ create_pdf(arg.request, u, "saved")

SpecCompose == InitCompose /\ [][NextCompose]_vars

\* the handlers with every outcome of the save call
NextCreate ==
    \/ \E u \in UniqueIds, o \in SaveOutcomes : Pending("pptx") /\ create_pptx(arg.request, u, o)
    \/ \E u \in UniqueIds, o \in SaveOutcomes : Pending("docx") /\ create_docx(arg.request, u, o)
    \/ \E u \in UniqueIds, o \in SaveOutcomes : Pending("xlsx") /\ create_xlsx(arg.request, u, o)
    \/ \E u \in UniqueIds, o \in SaveOutcomes : Pending("pdf") /\ create_pdf(arg.request, u, o)

SpecCreate == InitCompose /\ [][NextCreate]_vars

\* spreadsheet requests with the forms the filename field can take: with and
\* without the extension, and with path separators
NameSamples == {<<"report", ".xlsx">>, <<"q3">>, <<"q3", ".xlsx", ".bak">>,
                <<"../", "evil">>, <<"sub/", "report", ".xlsx">>}
ExcelNameRequests ==
    {[BareWorkbook EXCEPT !.filename = fn, !.sheets = << s >>] :
        fn \in NameSamples, s \in {BareSheet, FullSheet}}

InitNaming ==
    \/ InitCompose
    \/ InitCase("xlsx", ExcelNameRequests, {EmptyDir}, {EmptyDir}, {NoTemplates}, Stores)

\* every create request, the spreadsheet names included
SpecNaming == InitNaming /\ [][NextCreate]_vars

\* ------------------------------------------------- registry: the operations
\* What the registry specification uploads and looks up.
LogoFiles == {"acme", "acme.png", "acme.jpg", "acme.jpeg", "acme.svg"}
ImageFiles == {"pic", "pic.png"}
TemplateTypes == {"docx", "xlsx"}
TemplateFiles == {"report", "report.png"}
UploadBytes == {"b1"}
LogoLookups == {None, Some(""), Some("acme"), Some("acme.jpg"), Some("other")}
ImageLookups == {None, Some(""), Some("pic"), Some("other")}
TemplateLookups == {None, Some(""), Some("report"), Some("other")}

\* POST /assets/logo
upload_logo(filename, bytes, name) ==
    LET logo_name == IF TruthyStr(name) THEN name[1] ELSE filename IN
    /\ logos' = write_file(logos, logo_name, bytes)
    /\ op' = "upload_logo"
    /\ arg' = [filename |-> filename, name |-> name, bytes |-> bytes]
    /\ ret' = [status |-> 200, success |-> TRUE, name |-> logo_name]
    /\ UNCHANGED <<images, templates, files, now, sweeper, outside>>

\* POST /assets/image
upload_image(filename, bytes, name) ==
    LET image_name == IF TruthyStr(name) THEN name[1] ELSE filename IN
    /\ images' = write_file(images, image_name, bytes)
    /\ op' = "upload_image"
    /\ arg' = [filename |-> filename, name |-> name, bytes |-> bytes]
    /\ ret' = [status |-> 200, success |-> TRUE, name |-> image_name]
    /\ UNCHANGED <<logos, templates, files, now, sweeper, outside>>

\* A template_type that climbs out of TEMPLATES_DIR: with the default
\* directories (/app/templates, /app/assets) TEMPLATES_DIR / "../assets/logos"
\* is ASSETS_DIR / "logos", which exists, so mkdir(exist_ok=True) passes.
LOGOS_FROM_TEMPLATES == "../assets/logos"

\* POST /templates/upload
upload_template(filename, bytes, template_type, name) ==
    LET template_name == IF TruthyStr(name) THEN name[1] ELSE filename
        template_dir == IF template_type \in DOMAIN templates
                        THEN templates[template_type] ELSE EmptyDir
    IN
    /\ IF template_type = LOGOS_FROM_TEMPLATES
       THEN /\ logos' = write_file(logos, template_name, bytes)
            /\ UNCHANGED templates
       ELSE /\ templates' = [t \in DOMAIN templates \cup {template_type} |->
                                IF t = template_type
                                THEN write_file(template_dir, template_name, bytes)
                                ELSE templates[t]]
            /\ UNCHANGED logos
    /\ op' = "upload_template"
    /\ arg' = [filename |-> filename, name |-> name, template_type |-> template_type,
               bytes |-> bytes]
    /\ ret' = [status |-> 200, success |-> TRUE, name |-> template_name]
    /\ UNCHANGED <<images, files, now, sweeper, outside>>

\* a composer resolving its request's logo
LocateLogo(logo_name) ==
    /\ op' = "get_logo_path"
    /\ arg' = [name |-> logo_name, category |-> "logos"]
    /\ ret' = get_logo_path(logo_name, logos)
    /\ UNCHANGED <<regVars, files, now, sweeper, outside>>

\* a composer resolving a content unit's image reference
LocateImage(image_path) ==
    /\ op' = "get_image_path"
    /\ arg' = [name |-> image_path, category |-> "images"]
    /\ ret' = get_image_path(image_path, images)
    /\ UNCHANGED <<regVars, files, now, sweeper, outside>>

\* a composer resolving its request's template
LocateTemplate(template_name, template_type) ==
    /\ op' = "get_template_path"
    /\ arg' = [name |-> template_name, category |-> template_type]
    /\ ret' = get_template_path(template_name, template_type, templates)
    /\ UNCHANGED <<regVars, files, now, sweeper, outside>>

\* the state after the module is loaded: the directories exist and are empty
Init ==
    /\ logos = EmptyDir
    /\ images = EmptyDir
    /\ templates = [t \in {} |-> EmptyDir]
    /\ files = EmptyDir
    /\ now = 0
    /\ op = "start"
    /\ arg = None
    /\ ret = None
    /\ sweeper = [running |-> TRUE, wake |-> 0]
    /\ outside = EmptyDir

NextRegistry ==
    \/ \E f \in LogoFiles, b \in UploadBytes : upload_logo(f, b, None)
    \/ \E f \in LogoFiles, b \in UploadBytes : upload_logo("upload.bin", b, Some(f))
    \/ \E f \in ImageFiles, b \in UploadBytes, n \in {None, Some("pic")} :
           upload_image(f, b, n)
    \/ \E f \in TemplateFiles, b \in UploadBytes, t \in TemplateTypes :
           upload_template(f, b, t, None)
    \/ \E n \in LogoLookups : LocateLogo(n)
    \/ \E n \in ImageLookups : LocateImage(n)
    \/ \E n \in TemplateLookups, t \in TemplateTypes : LocateTemplate(n, t)

SpecRegistry == Init /\ [][NextRegistry]_vars

\* Uploads under the same name with different bytes, and a template upload
\* whose type climbs into the logo directory.
RoundTripBytes == {"b1", "b2"}
NextUploads ==
    \/ \E f \in {"acme", "acme.png"}, b \in RoundTripBytes : upload_logo(f, b, None)
    \/ \E b \in RoundTripBytes : upload_image("upload.bin", b, Some("pic.png"))
    \/ \E f \in {"report", "acme.png"}, b \in RoundTripBytes,
          t \in {"docx", LOGOS_FROM_TEMPLATES} : upload_template(f, b, t, None)
    \/ \E n \in {Some("acme"), Some("acme.png")} : LocateLogo(n)
    \/ \E n \in {Some("pic.png")} : LocateImage(n)
    \/ \E n \in {Some("report")}, t \in TemplateTypes : LocateTemplate(n, t)

SpecUploads == Init /\ [][NextUploads]_vars

\* ------------------------------------------------- the service as a whole
\* FILE_RETENTION_HOURS is read from the environment; the service is run
\* here with a retention window of two hours.
FILE_RETENTION_HOURS == 2
\* asyncio.sleep(3600): the sweep sleeps for an hour
SWEEP_SLEEP_HOURS == 1
\* The service is started an hour and a bit before the end of a month, so
\* that the day and the month change while it runs, and is watched for
\* MaxTicks hours.
START_TIME == 718
MaxTicks == 3
\* the store holds at most this many files when a create request arrives
MaxFiles == 2

Remove(dir, names) == [n \in DOMAIN dir \ names |-> dir[n]]

\* GET /files/{filename}
download_file(filename) ==
    /\ op' = "download_file"
    /\ arg' = filename
    /\ ret' = IF filename \in DOMAIN files
              THEN [status |-> 200, filename |-> filename, file |-> files[filename]]
              ELSE [status |-> 404, detail |-> "Datei nicht gefunden"]
    /\ UNCHANGED <<regVars, files, now, sweeper, outside>>

\* a slip in the existence test: the handler answers for any name
delete_file_unchecked(filename) ==
    /\ op' = "delete_file"
    /\ arg' = filename
    /\ files' = Remove(files, {filename})
    /\ ret' = [status |-> 200, success |-> TRUE]
    /\ UNCHANGED <<regVars, now, sweeper, outside>>

\* DELETE /files/{filename}
delete_file(filename) ==
    /\ op' = "delete_file"
    /\ arg' = filename
    /\ IF filename \in DOMAIN files
       THEN /\ files' = Remove(files, {filename})
            /\ ret' = [status |-> 200, success |-> TRUE]
       ELSE /\ ret' = [status |-> 404, detail |-> "Datei nicht gefunden"]
            /\ UNCHANGED files
    /\ UNCHANGED <<regVars, now, sweeper, outside>>

\* a slip in the comparison: a file exactly as old as the window is deleted
expired_or_at_cutoff(file, cutoff) == file.mtime <= cutoff

\* file_time < cutoff
expired(file, cutoff) == file.mtime < cutoff

\* a slip in the sleep: a day instead of an hour between two passes
cleanup_old_files_daily ==
    LET cutoff == now - FILE_RETENTION_HOURS IN
    /\ sweeper.running
    /\ sweeper.wake <= now
    /\ files' = Remove(files, {n \in DOMAIN files : expired(files[n], cutoff)})
    /\ sweeper' = [sweeper EXCEPT !.wake = now + HOURS_PER_DAY]
    /\ op' = "cleanup_old_files"
    /\ arg' = Some(cutoff)
    /\ ret' = None
    /\ UNCHANGED <<regVars, now, outside>>

\* One turn of the "while True" loop of cleanup_old_files: the pass over
\* FILES_DIR, then asyncio.sleep(3600).  The pass has no suspension point, so
\* no handler runs inside it.
cleanup_old_files ==
    LET cutoff == now - FILE_RETENTION_HOURS IN
    /\ sweeper.running
    /\ sweeper.wake <= now
    /\ files' = Remove(files, {n \in DOMAIN files : expired(files[n], cutoff)})
    /\ sweeper' = [sweeper EXCEPT !.wake = now + SWEEP_SLEEP_HOURS]
    /\ op' = "cleanup_old_files"
    /\ arg' = Some(cutoff)
    /\ ret' = None
    /\ UNCHANGED <<regVars, now, outside>>

\* lifespan, after the yield: task.cancel() when the application shuts down
shutdown ==
    /\ sweeper.running
    /\ sweeper' = [sweeper EXCEPT !.running = FALSE]
    /\ op' = "shutdown"
    /\ arg' = None
    /\ ret' = None
    /\ UNCHANGED <<regVars, files, now, outside>>

\* an hour passes
Tick ==
    /\ now < START_TIME + MaxTicks
    /\ now' = now + 1
    /\ op' = "tick"
    /\ arg' = None
    /\ ret' = None
    /\ UNCHANGED <<regVars, files, sweeper, outside>>

\* What the clients of the running service send.
ServiceIds == {"a1b2c3d4", "0a0b0c0d"}
ServicePresentation ==
    [BarePresentation EXCEPT !.author = Some("Ann"), !.logo = Some("acme"),
                             !.slides = << BareSlide >>]
ServicePage ==
    [BarePage EXCEPT !.author = Some("Ann"), !.logo = Some("acme"),
                     !.sections = << [BareBlock EXCEPT !.content = Some("text")] >>]
\* the names asked for: a deck of the first hour, a file left by the
\* previous run, a file that never was
ServiceNames ==
    {generate_filename("presentation", "pptx", START_TIME, "a1b2c3d4"),
     "document_717_0a0b0c0d.pdf", "nothing.pdf"}
\* files a previous run of the service left in FILES_DIR: one long expired,
\* one an hour old
LeftOld == "document_0_0a0b0c0d.pdf"
LeftYoung == "document_717_0a0b0c0d.pdf"
LeftFiles ==
    [n \in {LeftOld, LeftYoung} |->
        [complete |-> TRUE, kind |-> "pdf", body |-> None,
         mtime |-> IF n = LeftOld THEN 0 ELSE START_TIME - 1]]

\* the state after startup: lifespan has created the sweep task, which has
\* not run yet
InitService ==
    /\ logos = EmptyDir
    /\ images = EmptyDir
    /\ templates = [t \in {} |-> EmptyDir]
    /\ files \in {EmptyDir, LeftFiles}
    /\ now = START_TIME
    /\ op = "start"
    /\ arg = None
    /\ ret = None
    /\ sweeper = [running |-> TRUE, wake |-> START_TIME]
    /\ outside = EmptyDir

\* a handler runs only while the application is up
Serving == sweeper.running
Room == Cardinality(DOMAIN files) < MaxFiles

NextService ==
    \/ \E u \in ServiceIds : Serving /\ Room /\ create_pptx(ServicePresentation, u, "saved")
    \/ \E u \in {"a1b2c3d4"}, o \in {"saved", "aborted"} :
           Serving /\ Room /\ create_pdf(ServicePage, u, o)
    \/ \E b \in {"b1"} : Serving /\ upload_logo("acme.png", b, None)
    \/ \E n \in ServiceNames : Serving /\ download_file(n)
    \/ \E n \in ServiceNames : Serving /\ delete_file(n)
    \/ cleanup_old_files
    \/ shutdown
    \/ Tick

SpecService == InitService /\ [][NextService]_vars

\* The steps of cleanup_old_files and of Tick as they show in the variable
\* that only they change: the sweeper is re-armed, the clock advances.
SweepTurn ==
    /\ sweeper.running
    /\ sweeper.wake <= now
    /\ sweeper' = [sweeper EXCEPT !.wake = now + SWEEP_SLEEP_HOURS]
HourPasses ==
    /\ now < START_TIME + MaxTicks
    /\ now' = now + 1

\* The event loop runs the sweep task when its sleep is over, and the clock
\* does not stop.
SpecServiceLive ==
    /\ SpecService
    /\ WF_sweeper(SweepTurn)
    /\ WF_now(HourPasses)

\* ------------------------------------------------------------ asset location
\* The directory a lookup of the given category reads.
CategoryDir(category) ==
    IF category = "logos" THEN logos
    ELSE IF category = "images" THEN images
    ELSE IF category \in DOMAIN templates THEN templates[category]
    ELSE EmptyDir

IsLocate == op \in {"get_logo_path", "get_image_path", "get_template_path"}

\* The result the claim describes: the exact name first, then the name with
\* each default extension in order; absent when the name is empty or no probe
\* matches.
ProbedWithExtensions(category, name, dir) ==
    IF ~TruthyStr(name) THEN None
    ELSE IF name[1] \in DOMAIN dir THEN Some(Path(category, name[1]))
    ELSE IF \E k \in 1..Len(LOGO_EXTENSIONS) : (name[1] \o LOGO_EXTENSIONS[k]) \in DOMAIN dir
         THEN LET k == CHOOSE i \in 1..Len(LOGO_EXTENSIONS) :
                         /\ (name[1] \o LOGO_EXTENSIONS[i]) \in DOMAIN dir
                         /\ \A j \in 1..(i - 1) :
                                (name[1] \o LOGO_EXTENSIONS[j]) \notin DOMAIN dir
              IN Some(Path(category, name[1] \o LOGO_EXTENSIONS[k]))
         ELSE None

ProbedExactly(category, name, dir) ==
    IF TruthyStr(name) /\ name[1] \in DOMAIN dir
    THEN Some(Path(category, name[1])) ELSE None

\* C2 as stated: a reference of any category (logo, image, template) is
\* probed by the exact name and then by the name with each default extension
\* appended in the order .png, .jpg, .jpeg, .svg; the first existing entry is
\* returned, and an empty name or no match gives absent.
C2_AnyCategoryProbesExtensions ==
    IsLocate =>
        ret = ProbedWithExtensions(arg.category, arg.name, CategoryDir(arg.category))

\* C2 amended: a logo reference is probed by the exact name and then by the
\* name with .png, .jpg, .jpeg, .svg appended in that order, the first
\* existing entry winning; an image or template reference is probed by the
\* exact name only; an empty or missing name, or no match, gives absent.
C2_LogoProbesExtensionsOthersExact ==
    /\ op = "get_logo_path" =>
           ret = ProbedWithExtensions("logos", arg.name, logos)
    /\ op \in {"get_image_path", "get_template_path"} =>
           ret = ProbedExactly(arg.category, arg.name, CategoryDir(arg.category))

\* a logo lookup in which the exact name is missing, .png is missing and both
\* .jpg and .svg exist: the .jpg entry is returned
C2_Witness ==
    /\ op = "get_logo_path"
    /\ arg.name = Some("acme")
    /\ "acme" \notin DOMAIN logos
    /\ "acme.png" \notin DOMAIN logos
    /\ {"acme.jpg", "acme.svg"} \subseteq DOMAIN logos
    /\ ret = Some(Path("logos", "acme.jpg"))

\* ------------------------------------------------------- composed documents
CreateOps == {"create_pptx", "create_docx", "create_xlsx", "create_pdf"}
IsCreate == op \in CreateOps
Succeeded(opname) == op = opname /\ ret.status = 200
\* the document in the file that the response names
Document == files[ret.filename].body[1]

\* the composer of a handler, applied to a request in the current registry
Compose(opname, request) ==
    IF opname = "create_pptx" THEN create_professional_pptx(request, logos, images, now)
    ELSE IF opname = "create_docx"
         THEN create_professional_docx(request, logos, images, templates, now)
    ELSE IF opname = "create_xlsx" THEN create_professional_xlsx(request, logos, templates)
    ELSE create_professional_pdf(request, logos, images, now)

\* the shapes of a slide (a sequence) that satisfy Test
ShapesWith(slide, Test(_)) == SelectSeq(slide, Test)
IsLogo(shape) == shape.role = "logo"
NotLogo(shape) == shape.role # "logo"
Roles(shapes) == [k \in 1..Len(shapes) |-> shapes[k].role]

\* ------------------------------------------------------------------ C1
SupportedPalettes == {"midnight_executive", "forest_moss", "coral_energy",
                      "warm_terracotta", "ocean_gradient", "charcoal_minimal",
                      "teal_trust", "berry_cream", "corporate_blue"}
PaletteRoles == {"primary", "secondary", "accent", "text_dark", "text_light"}
\* the hex digits of corporate_blue
DefaultPrimary == <<0, 0, 3, 3, 6, 6>>
DefaultSecondary == <<0, 0, 6, 6, 12, 12>>
DefaultAccent == <<15, 15, 9, 9, 0, 0>>
DefaultTextDark == <<0, 0, 3, 3, 6, 6>>
DefaultTextLight == <<15, 15, 15, 15, 15, 15>>

\* the colour with which a role of the palette named by the request shows
\* in a document
ShownAs(name, role, colour) ==
    /\ name \in SupportedPalettes => colour = hex_to_rgb(COLOR_PALETTES[name][role])
    /\ name \notin SupportedPalettes =>
          colour = hex_to_rgb(CASE role = "primary" -> DefaultPrimary
                                [] role = "secondary" -> DefaultSecondary
                                [] role = "accent" -> DefaultAccent
                                [] role = "text_dark" -> DefaultTextDark
                                [] role = "text_light" -> DefaultTextLight)

ShapeWithRole(slide, role) == CHOOSE shape \in {slide[k] : k \in 1..Len(slide)} : shape.role = role
HasRole(slide, role) == \E k \in 1..Len(slide) : slide[k].role = role
FlowablesOf(pages) == Flatten(pages)

\* C1: palette resolution is total.  Every supported palette has all five
\* colour roles, each non-empty; for every palette name a presentation
\* (color_palette) and a page document (color_scheme) are generated without
\* an error from the resolution, and every colour role shows in the document
\* with the colour of the named palette when the name is supported and with
\* the colour of corporate_blue when it is not.
C1_PaletteResolutionTotal ==
    /\ \A name \in SupportedPalettes :
          /\ name \in DOMAIN COLOR_PALETTES
          /\ DOMAIN COLOR_PALETTES[name] = PaletteRoles
          /\ \A role \in PaletteRoles : Len(COLOR_PALETTES[name][role]) = 6
    /\ op = "create_pptx" /\ (\A i \in 1..Len(arg.slides) : arg.slides[i].columns = None) =>
          /\ ret.status = 200
          /\ LET first == Document.slides[1]
                 name == arg.color_palette
             IN /\ ShownAs(name, "primary", ShapeWithRole(first, "background").fill)
                /\ ShownAs(name, "text_light",
                           ShapeWithRole(first, "title").paragraphs[1].color[1])
                /\ HasRole(first, "subtitle") =>
                      ShownAs(name, "secondary",
                              ShapeWithRole(first, "subtitle").paragraphs[1].color[1])
                /\ HasRole(first, "author") =>
                      ShownAs(name, "accent",
                              ShapeWithRole(first, "author").paragraphs[1].color[1])
                /\ \A i \in 1..Len(arg.slides) :
                      ShownAs(name, "text_dark",
                              ShapeWithRole(Document.slides[i + 1], "title").paragraphs[1].color[1])
    /\ Succeeded("create_pdf") =>
          LET story == FlowablesOf(Document.pages) IN
          \A k \in 1..Len(story) :
              /\ story[k].type = "paragraph" /\ story[k].attrs.style.name = "CustomTitle" =>
                    ShownAs(arg.color_scheme, "primary", story[k].attrs.style.textColor)
              /\ story[k].type = "paragraph" /\ story[k].attrs.style.name = "CustomHeading2" =>
                    ShownAs(arg.color_scheme, "secondary", story[k].attrs.style.textColor)
    /\ op = "create_pdf" /\ arg.title \notin MALFORMED_MARKUP
          /\ (\A i \in 1..Len(arg.sections) : arg.sections[i].content \notin
                                                {Some(m) : m \in MALFORMED_MARKUP}) =>
          ret.status = 200

\* a presentation generated for a palette name in the wrong letter case: it
\* shows the primary colour of corporate_blue
C1_Witness ==
    /\ Succeeded("create_pptx")
    /\ arg.color_palette = "Corporate_Blue"
    /\ ShapeWithRole(Document.slides[1], "background").fill = <<0, 51, 102>>
    /\ Len(arg.slides) = 1

\* ------------------------------------------------------------------ C3
WithoutLogo(request) == [request EXCEPT !.logo = None]
LogoUnresolved == ProbedWithExtensions("logos", arg.logo, logos) = None

\* no logo image element anywhere in a document of the given kind
NoLogoElement(opname, doc) ==
    IF opname = "create_pptx"
    THEN \A i \in 1..Len(doc.slides) : \A k \in 1..Len(doc.slides[i]) :
            doc.slides[i][k].type # "picture" \/ doc.slides[i][k].role # "logo"
    ELSE IF opname = "create_docx"
    THEN \A k \in 1..Len(doc.body) : doc.body[k].role # "logo"
    ELSE IF opname = "create_xlsx"
    THEN \A i \in 1..Len(doc) : doc[i].images = <<>>
    ELSE \A i \in 1..Len(doc.pages) : \A k \in 1..Len(doc.pages[i]) :
            doc.pages[i][k].type # "image" \/ doc.pages[i][k].attrs.role # "logo"

\* C3: for each of the four composers, a request whose logo name resolves to
\* nothing in the registry is generated exactly when the same request without
\* a logo field is, the document holds no logo image element, and it equals
\* the document of the same request without a logo field.
C3_UnresolvedLogoIsOmitted ==
    IsCreate /\ LogoUnresolved =>
        /\ (ret.status = 200) = Compose(op, WithoutLogo(arg)).ok
        /\ ret.status = 200 =>
              /\ NoLogoElement(op, Document)
              /\ Document = saved_body(Compose(op, WithoutLogo(arg)))

\* a deck of three slides generated for a logo name that matches no file
\* although the registry holds another logo
C3_Witness ==
    /\ Succeeded("create_pptx")
    /\ arg.logo = Some("ghost")
    /\ "acme.png" \in DOMAIN logos
    /\ Len(Document.slides) = 3

\* ------------------------------------------------------------------ C4
KnownLayouts == {"title_content", "two_column", "stats", "image_left", "image_right"}
KnownBlockTypes == {"paragraph", "heading", "table", "image", "spacer", "page_break"}
BlockFlowables(pages, i) == SelectSeq(FlowablesOf(pages), LAMBDA f : f.block = i)

\* C4: layout selection falls back for every output kind.  A slide with an
\* unknown layout tag is rendered as the same slide with the title_content
\* layout, and a page-document block with an unknown type tag is rendered with
\* the page composer's default (paragraph) strategy; neither is rejected or
\* omitted.
C4_UnknownTagFallsBack ==
    /\ op = "create_pptx" =>
          \A i \in 1..Len(arg.slides) :
              arg.slides[i].layout \notin KnownLayouts =>
                  /\ (ret.status = 200) =
                        Compose(op, [arg EXCEPT !.slides[i].layout = "title_content"]).ok
                  /\ ret.status = 200 =>
                        Document.slides[i + 1] =
                            saved_body(Compose(op, [arg EXCEPT !.slides[i].layout =
                                                       "title_content"])).slides[i + 1]
    /\ op = "create_pdf" =>
          \A i \in 1..Len(arg.sections) :
              arg.sections[i].type \notin KnownBlockTypes =>
                  /\ (ret.status = 200) =
                        Compose(op, [arg EXCEPT !.sections[i].type = "paragraph"]).ok
                  /\ ret.status = 200 =>
                        /\ BlockFlowables(Document.pages, i) # <<>>
                        /\ BlockFlowables(Document.pages, i) =
                              BlockFlowables(
                                  saved_body(Compose(op, [arg EXCEPT !.sections[i].type =
                                                             "paragraph"])).pages, i)

\* ------------------------------------------------------------------ C5
TemplateSheets ==
    IF get_template_path(arg.template, "xlsx", templates) # None
    THEN TemplateWorkbook(templates["xlsx"][arg.template[1]])
    ELSE <<>>
SheetNamed(wb, name) == wb[CHOOSE k \in 1..Len(wb) : wb[k].name = name]
\* the sheet before the request's sheet blocks were applied to it
BaseSheet(name) ==
    IF name \in sheetnames(TemplateSheets) THEN SheetNamed(TemplateSheets, name)
    ELSE NewSheet(name)

\* C5: a content unit in which every optional field is omitted is composed
\* without failure and adds nothing beyond its skeleton.  A title-only slide
\* has, besides the deck's logo mark, exactly its background, accent bar and
\* title box; heading-only sections add exactly their headings to the
\* document; a sheet given by name only (by every block that names it) keeps
\* the cells it had before, with no formula and no chart; a page block with
\* no field set is the default empty paragraph and its spacer.
C5_MinimalUnitIsSkeleton ==
    /\ op = "create_pptx" =>
          /\ (\A i \in 1..Len(arg.slides) : arg.slides[i] = [BareSlide EXCEPT
                                                !.title = arg.slides[i].title]) =>
                ret.status = 200
          /\ ret.status = 200 =>
                \A i \in 1..Len(arg.slides) :
                    arg.slides[i] = [BareSlide EXCEPT !.title = arg.slides[i].title] =>
                        /\ Roles(ShapesWith(Document.slides[i + 1], NotLogo)) =
                              <<"background", "accent_bar", "title">>
                        /\ Document.slides[i + 1][3].paragraphs[1].text = arg.slides[i].title
    /\ op = "create_docx" /\ (\A i \in 1..Len(arg.sections) : arg.sections[i] = HeadingOnly) =>
          /\ ret.status = 200
          /\ Document.body =
                saved_body(Compose(op, [arg EXCEPT !.sections = <<>>])).body
                \o [i \in 1..Len(arg.sections) |->
                       DocHeading("section_heading", "Heading", 1, None)]
    /\ op = "create_xlsx" =>
          /\ (\A i \in 1..Len(arg.sheets) :
                 arg.sheets[i] = [BareSheet EXCEPT !.name = arg.sheets[i].name]) =>
                ret.status = 200
          /\ ret.status = 200 =>
                \A i \in 1..Len(arg.sheets) :
                    (\A k \in 1..Len(arg.sheets) :
                        arg.sheets[k].name = arg.sheets[i].name =>
                            arg.sheets[k] = [BareSheet EXCEPT !.name = arg.sheets[i].name]) =>
                        /\ arg.sheets[i].name \in sheetnames(Document)
                        /\ SheetNamed(Document, arg.sheets[i].name).cells =
                              BaseSheet(arg.sheets[i].name).cells
                        /\ SheetNamed(Document, arg.sheets[i].name).charts = <<>>
    /\ op = "create_pdf" =>
          /\ arg.title \notin MALFORMED_MARKUP
                /\ (\A i \in 1..Len(arg.sections) : arg.sections[i] = BareBlock) =>
                ret.status = 200
          /\ ret.status = 200 =>
                \A i \in 1..Len(arg.sections) :
                    arg.sections[i] = BareBlock =>
                        BlockFlowables(Document.pages, i) =
                            << RLParagraph(i, "", pdf_styles(resolve_palette(arg.color_scheme)).Normal),
                               RLSpacer(i, 200) >>

\* a deck with a title-only slide, generated with a logo that resolves: the
\* slide holds its three skeleton shapes and the logo mark
C5_Witness ==
    /\ Succeeded("create_pptx")
    /\ Len(arg.slides) = 1
    /\ arg.slides[1] = BareSlide
    /\ Roles(Document.slides[2]) = <<"background", "accent_bar", "title", "logo">>

\* ------------------------------------------------------------------ C6
Abs(x) == IF x < 0 THEN -x ELSE x
\* 0.75 inch, 12 inches and 0.3 inch in EMU
LEFT_MARGIN_EMU == 685800
RIGHT_BOUND_EMU == 10972800
GAP_EMU == 274320

StatValues(slide) == ShapesWith(slide, LAMBDA shape : shape.role = "stat_value")
StatLabels(slide) == ShapesWith(slide, LAMBDA shape : shape.role = "stat_label")
IsStatsSlide(slide_content) == slide_content.layout = "stats"
NumStats(slide_content) ==
    IF slide_content.stats = None THEN 0 ELSE Len(slide_content.stats[1])

\* The blocks of a stats slide laid out over the given total width: one value
\* box and one label box per stat in request order, block i at
\* left_margin + i * total / N, every box total / N - 0.3in wide (each
\* truncated to a whole EMU), and no box reaching into the next block.
StatsLaidOutOver(slide_content, slide, total) ==
    LET n == NumStats(slide_content)
        values == StatValues(slide)
        labels == StatLabels(slide)
    IN /\ Len(values) = n
       /\ Len(labels) = n
       /\ \A i \in 0..(n - 1) :
             /\ values[i + 1].paragraphs[1].text = dict_get(slide_content.stats[1][i + 1].value, "")
             /\ labels[i + 1].paragraphs[1].text = dict_get(slide_content.stats[1][i + 1].label, "")
             /\ values[i + 1].left = labels[i + 1].left
             /\ values[i + 1].width = labels[i + 1].width
             /\ Abs(n * (values[i + 1].left - LEFT_MARGIN_EMU) - i * total) < n
             /\ Abs(n * (values[i + 1].width + GAP_EMU) - total) < n
             /\ i + 1 < n =>
                   /\ values[i + 1].left < values[i + 2].left
                   /\ values[i + 1].left + values[i + 1].width <= values[i + 2].left

\* C6 as stated: on a stats slide with N >= 1 blocks every block's width is
\* (canvas_width - margin) / N, the canvas being the 13.333 inch slide.
C6_StatsSpanCanvasWidth ==
    Succeeded("create_pptx") =>
        \A s \in 1..Len(arg.slides) :
            IsStatsSlide(arg.slides[s]) =>
                StatsLaidOutOver(arg.slides[s], Document.slides[s + 1],
                                 SLIDE_WIDTH - LEFT_MARGIN_EMU)

\* C6 amended: on a stats slide with N >= 1 blocks every block's width is
\* (12in - 0.75in) / N, block i is placed at 0.75in + i * width, blocks appear
\* left to right in request order and the right edge of block i's text boxes
\* (width - 0.3in wide) is not to the right of the left edge of block i+1;
\* with an empty or missing stats list nothing is placed and the slide is
\* generated.
C6_StatsSpanFixedWidth ==
    op = "create_pptx" =>
        /\ (\A s \in 1..Len(arg.slides) : IsStatsSlide(arg.slides[s])) => ret.status = 200
        /\ ret.status = 200 =>
              \A s \in 1..Len(arg.slides) :
                  IsStatsSlide(arg.slides[s]) =>
                      /\ StatsLaidOutOver(arg.slides[s], Document.slides[s + 1],
                                          RIGHT_BOUND_EMU - LEFT_MARGIN_EMU)
                      /\ NumStats(arg.slides[s]) = 0 =>
                            Roles(ShapesWith(Document.slides[s + 1], NotLogo)) =
                                <<"background", "accent_bar", "title">>

\* a stats slide with four blocks: the fourth block starts 3 * 11.25 / 4
\* inches right of the margin
C6_Witness ==
    /\ Succeeded("create_pptx")
    /\ Len(arg.slides) = 1
    /\ IsStatsSlide(arg.slides[1])
    /\ NumStats(arg.slides[1]) = 4
    /\ StatValues(Document.slides[2])[4].left = 8401050
    /\ StatValues(Document.slides[2])[4].width = 2297430

\* ------------------------------------------------------------------ C7
FreshWorkbook == get_template_path(arg.template, "xlsx", templates) = None
ListOf(o) == IF o = None THEN <<>> ELSE o[1]
\* the value read back from a cell of a sheet is the given value: same
\* type, same content
ReadsBack(sheet, ref, value) ==
    LET read == cell_at(sheet.cells, ref).value
    IN /\ read # None
       /\ read[1].type = value.type
       /\ read[1].v = value.v

\* a header cell: bold, with the header fill of the request's style
HeaderFormat(sheet, ref) ==
    LET cell == cell_at(sheet.cells, ref)
    IN /\ cell.font # None
       /\ cell.font[1].bold
       /\ cell.fill = Some(IF arg.style = "financial" THEN "1E3A5F"
                           ELSE IF arg.style = "minimal" THEN "666666" ELSE "003366")
\* a data cell: thin border, a number centred and a text left-aligned
DataFormat(sheet, ref, value) ==
    LET cell == cell_at(sheet.cells, ref)
    IN /\ cell.border = Some("thin")
       /\ cell.align # None
       /\ cell.align[1].horizontal = IF value.type = "int" THEN "center" ELSE "left"

\* the header row and the data rows of sheet block i read back in place
HeadersAndDataReadBack(i) ==
    LET cfg == arg.sheets[i]
        sheet == SheetNamed(Document, cfg.name)
        headers == ListOf(cfg.headers)
        data == ListOf(cfg.data)
        offset == IF headers # <<>> THEN 1 ELSE 0
    IN /\ cfg.name \in sheetnames(Document)
       /\ \A c \in 1..Len(headers) :
             /\ ReadsBack(sheet, <<1, c>>, PyStr(headers[c]))
             /\ HeaderFormat(sheet, <<1, c>>)
       /\ \A r \in 1..Len(data) : \A c \in 1..Len(data[r]) :
             /\ ReadsBack(sheet, <<r + offset, c>>, data[r][c])
             /\ DataFormat(sheet, <<r + offset, c>>, data[r][c])

\* the cells the header row and the data rows of sheet block i occupy
HeaderAndDataCells(i) ==
    LET headers == ListOf(arg.sheets[i].headers)
        data == ListOf(arg.sheets[i].data)
        offset == IF headers # <<>> THEN 1 ELSE 0
    IN {<<1, c>> : c \in 1..Len(headers)}
       \cup UNION {{<<r + offset, c>> : c \in 1..Len(data[r])} : r \in 1..Len(data)}

\* C7 as stated: on a fresh workbook, every sheet given with headers H and
\* data rows D holds H in row 1, each header cell bold with the header fill,
\* and D[r] in row 1+r (from row 1 on without headers), every number
\* centred, every text left-aligned and every data cell with a thin border.
C7_SheetRoundTrip ==
    Succeeded("create_xlsx") /\ FreshWorkbook =>
        \A i \in 1..Len(arg.sheets) : HeadersAndDataReadBack(i)

\* C7 amended: on a fresh workbook, a sheet given with headers H and data
\* rows D holds H in row 1, each header cell bold with the header fill, and
\* D[r] in row 1+r (from row 1 on when the headers are absent or empty),
\* every number centred, every text left-aligned and every data cell with a
\* thin border, provided none of the sheet's formulas targets one of those
\* cells and no later sheet block of the request has the same name.
C7_SheetRoundTripUnlessOverwritten ==
    Succeeded("create_xlsx") /\ FreshWorkbook =>
        \A i \in 1..Len(arg.sheets) :
            /\ \A k \in 1..Len(ListOf(arg.sheets[i].formulas)) :
                   arg.sheets[i].formulas[1][k].cell_ref \notin HeaderAndDataCells(i)
            /\ \A j \in (i + 1)..Len(arg.sheets) : arg.sheets[j].name # arg.sheets[i].name
            => HeadersAndDataReadBack(i)

\* a sheet with two headers and two data rows, the second row read back
\* from row 3
C7_Witness ==
    /\ Succeeded("create_xlsx")
    /\ FreshWorkbook
    /\ Len(arg.sheets) = 1
    /\ arg.sheets[1].headers = Some(<<"A", "B">>)
    /\ Len(ListOf(arg.sheets[1].data)) = 2
    /\ arg.sheets[1].formulas = None
    /\ ReadsBack(Document[1], <<1, 2>>, PyStr("B"))
    /\ ReadsBack(Document[1], <<3, 1>>, arg.sheets[1].data[1][2][1])

\* ------------------------------------------------------------------ C8
\* a data range that has exactly one ':' separator
WellFormedRange(config) ==
    Cardinality({k \in 1..Len(config.data_range) : config.data_range[k] = ":"}) = 1
WithoutMalformedCharts(request) ==
    [request EXCEPT !.sheets =
        [i \in 1..Len(request.sheets) |->
            [request.sheets[i] EXCEPT !.charts =
                IF @ = None THEN None ELSE Some(SelectSeq(@[1], WellFormedRange))]]]

\* C8: a chart whose data range is not two parts around one ':' is skipped
\* and the sheet's other charts are still produced.  The workbook is
\* generated exactly when it is without the malformed charts, it is the same
\* workbook, and a sheet named by one block of a fresh workbook holds the
\* block's well-formed charts, in list order, each at its own position.
C8_MalformedChartSkipped ==
    op = "create_xlsx" =>
        /\ (ret.status = 200) = Compose(op, WithoutMalformedCharts(arg)).ok
        /\ ret.status = 200 =>
              /\ Document = saved_body(Compose(op, WithoutMalformedCharts(arg)))
              /\ FreshWorkbook =>
                    \A i \in 1..Len(arg.sheets) :
                        (\A j \in 1..Len(arg.sheets) :
                            j # i => arg.sheets[j].name # arg.sheets[i].name) =>
                        LET kept == SelectSeq(ListOf(arg.sheets[i].charts), WellFormedRange)
                            charts == SheetNamed(Document, arg.sheets[i].name).charts
                        IN /\ Len(charts) = Len(kept)
                           /\ \A k \in 1..Len(kept) :
                                 /\ charts[k].anchor = kept[k].position
                                 /\ charts[k].chart.title = kept[k].title

\* a sheet whose chart list has malformed ranges among well-formed ones: the
\* two well-formed charts are there, at E2 and E20
C8_Witness ==
    /\ Succeeded("create_xlsx")
    /\ Len(arg.sheets) = 1
    /\ \E k \in 1..Len(ListOf(arg.sheets[1].charts)) :
           ~WellFormedRange(arg.sheets[1].charts[1][k])
    /\ Len(Document[1].charts) = 2
    /\ Document[1].charts[1].anchor = "E2"
    /\ Document[1].charts[2].anchor = "E20"

\* ------------------------------------------------------------------ C9
PageBreaks == {i \in 1..Len(arg.sections) : arg.sections[i].type = "page_break"}
ThePageBreak == CHOOSE i \in PageBreaks : TRUE
\* the pages on which a block has a flowable
PagesOfBlock(pages, i) ==
    {p \in 1..Len(pages) : \E k \in 1..Len(pages[p]) : pages[p][k].block = i}
BeforeAndAfterOnSeparatePages(pages, b) ==
    \A i \in 0..(b - 1) : \A j \in (b + 1)..Len(arg.sections) :
        \A p \in PagesOfBlock(pages, i) : \A q \in PagesOfBlock(pages, j) : p < q
\* a block that puts something on a page
IsRendered(section) ==
    \/ section.type \in {"heading", "paragraph", "spacer"}
    \/ section.type = "table" /\ ListOf(section.data) # <<>>
    \/ section.type = "image" /\ ProbedExactly("images", section.image_path, images) # None

C10_FailureLeavesStoreUnchanged ==
    [][op' \in CreateOps /\ ret'.status # 200 =>
          /\ ret'.status = 500
          /\ "filename" \notin DOMAIN ret'
          /\ "download_url" \notin DOMAIN ret'
          /\ files' = files]_vars

\* ------------------------------------------------------------------ C11
\* the hours the service clock shows
ClockReadings == START_TIME..(START_TIME + MaxTicks)
\* the composer of a handler, applied in the current registry at clock t
ComposeAt(opname, request, t) ==
    IF opname = "create_pptx" THEN create_professional_pptx(request, logos, images, t)
    ELSE IF opname = "create_docx"
         THEN create_professional_docx(request, logos, images, templates, t)
    ELSE IF opname = "create_xlsx" THEN create_professional_xlsx(request, logos, templates)
    ELSE create_professional_pdf(request, logos, images, t)
ContentAt(opname, request, t) == saved_body(ComposeAt(opname, request, t))
\* the names a generation of the kind of the last response can get at clock t
NamesAt(t) ==
    {generate_filename(ComposeAt(op, arg, t).prefix, ComposeAt(op, arg, t).kind, t, u) :
        u \in ServiceIds}
\* the date a composer prints next to the author: the month in a deck, the
\* day in a document
DateStamp(opname, t) ==
    IF opname = "create_pptx" THEN t \div (HOURS_PER_DAY * DAYS_PER_MONTH)
    ELSE t \div HOURS_PER_DAY
\* a document without its author line
WithoutAuthorLine(opname, doc) ==
    IF opname = "create_pptx"
    THEN [i \in 1..Len(doc.slides) |->
             SelectSeq(doc.slides[i], LAMBDA shape : shape.role # "author")]
    ELSE [i \in 1..Len(doc.pages) |->
             SelectSeq(doc.pages[i],
                       LAMBDA f : ~(f.block = 0 /\ f.type = "paragraph"
                                    /\ f.attrs.style.name = "Normal"))]

C12_FilenamesUnique ==
    [][op' \in CreateOps /\ ret'.status = 200 =>
          /\ ret'.filename \notin DOMAIN files
          /\ Cardinality(DOMAIN files') = Cardinality(DOMAIN files) + 1
          /\ \A n \in DOMAIN files : n \in DOMAIN files' /\ files'[n] = files[n]]_vars

\* ------------------------------------------------------------------ C13
Extension(opname) ==
    IF opname = "create_pptx" THEN "pptx"
    ELSE IF opname = "create_docx" THEN "docx"
    ELSE IF opname = "create_xlsx" THEN "xlsx"
    ELSE "pdf"
\* the prefix of a kind: fixed, or for a spreadsheet the request's filename
\* without its extension
NamePrefix(opname, request) ==
    IF opname = "create_pptx" THEN "presentation"
    ELSE IF opname = "create_docx" THEN "document"
    ELSE IF opname = "create_xlsx"
         THEN Join(SelectSeq(request.filename, LAMBDA part : part # ".xlsx"))
    ELSE "document"
\* prefix_timestamp_8hex.ext, as a direct entry of the store
WellShapedNames(opname, request, t) ==
    {NamePrefix(opname, request) \o "_" \o ToString(t) \o "_" \o u \o "." \o Extension(opname) :
        u \in UniqueIds}

\* C13: every file a create operation writes is a direct entry of the
\* generated-files store, never a path outside it or in a subdirectory, and
\* its name is prefix_timestamp_8hex.ext with the extension of the output
\* kind; for a spreadsheet the prefix is the request's filename field.
C13_FilesStayInStore ==
    [][op' \in CreateOps =>
          /\ outside' = outside
          /\ \A n \in DOMAIN files' :
                n \notin DOMAIN files \/ files'[n] # files[n] =>
                    n \in WellShapedNames(op', arg', now)
          /\ ret'.status = 200 => ret'.filename \in DOMAIN files']_vars

\* ------------------------------------------------------------------ C14
\* C14: one pass of the retention sweep deletes exactly the files of the
\* store whose modification time is strictly before now minus the retention
\* window: no younger file is deleted, no older file remains, the files that
\* stay are untouched, and the asset and template registries are unchanged.
C14_SweepDeletesExactlyExpired ==
    [][op' = "cleanup_old_files" =>
          /\ DOMAIN files' =
                {n \in DOMAIN files : files[n].mtime >= now - FILE_RETENTION_HOURS}
          /\ \A n \in DOMAIN files' : files'[n] = files[n]
          /\ logos' = logos
          /\ images' = images
          /\ templates' = templates]_vars

\* the pass two hours after the start: the file left an hour before the
\* start is gone, the deck generated in the first hour, exactly as old as
\* the window, is still there
C14_Witness ==
    /\ op = "cleanup_old_files"
    /\ now = START_TIME + FILE_RETENTION_HOURS
    /\ arg = Some(START_TIME)
    /\ DOMAIN files = {"presentation_718_a1b2c3d4.pptx"}
    /\ DOMAIN logos = {"acme.png"}

RoleColours(palette) == {hex_to_rgb(palette[role]) : role \in PaletteRoles}
AnyRoleColours == UNION {RoleColours(COLOR_PALETTES[name]) : name \in SupportedPalettes}
\* the named colours of reportlab.lib.colors and the hex strings of the
\* spreadsheet styles, as (r, g, b)
ColourValue(name) ==
    CASE name = "whitesmoke" -> <<245, 245, 245>>
      [] name = "beige" -> <<245, 245, 220>>
      [] name = "black" -> <<0, 0, 0>>
      [] name = "FFFFFF" -> <<255, 255, 255>>
      [] name = "003366" -> <<0, 51, 102>>
      [] name = "1E3A5F" -> <<30, 58, 95>>
      [] name = "666666" -> <<102, 102, 102>>
IsFilled(shape) == shape.type \in {"rectangle", "oval"}
IsText(shape) == shape.type = "textbox"
\* the fill colours and the text colours of a slide
SlideColours(slide) ==
    {slide[k].fill : k \in {j \in 1..Len(slide) : IsFilled(slide[j])}}
    \cup UNION {{slide[k].paragraphs[q].color[1] :
                    q \in {r \in 1..Len(slide[k].paragraphs) :
                              slide[k].paragraphs[r].color # None}} :
                k \in {j \in 1..Len(slide) : IsText(slide[j])}}
\* the cells of a workbook that carry a fill
FilledCells(wb) ==
    UNION {{wb[k].cells[ref] : ref \in {x \in DOMAIN wb[k].cells : wb[k].cells[x].fill # None}} :
           k \in 1..Len(wb)}
TablesOf(story) == {story[k].attrs.style : k \in {j \in 1..Len(story) : story[j].type = "table"}}
TextStylesOf(story) ==
    {story[k].attrs.style : k \in {j \in 1..Len(story) : story[j].type = "paragraph"}}

\* C16 as stated: every colour-bearing element of every generated document
\* (slide backgrounds, text, accent bars, bullet markers, the spreadsheet
\* header fill, table header and body shading) has the colour of one of the
\* five roles of the resolved palette; a spreadsheet request names no
\* palette, so its header fill is looked for in every palette.
C16_EveryColourFromPalette ==
    /\ Succeeded("create_pptx") =>
          \A s \in 1..Len(Document.slides) :
              SlideColours(Document.slides[s]) \subseteq
                  RoleColours(resolve_palette(arg.color_palette))
    /\ Succeeded("create_xlsx") /\ FreshWorkbook =>
          \A cell \in FilledCells(Document) : ColourValue(cell.fill[1]) \in AnyRoleColours
    /\ Succeeded("create_pdf") =>
          \A style \in TablesOf(FlowablesOf(Document.pages)) :
              {style.header_background, ColourValue(style.body_background)} \subseteq
                  RoleColours(resolve_palette(arg.color_scheme))

\* C16: the colours of a presentation and the heading and table-header
\* colours of a page document are those of fixed roles of the resolved
\* palette: title and closing backgrounds, accent bars, column titles and
\* statistic values primary; title-slide title and the closing text
\* text_light; subtitle and bullet markers secondary; the author line
\* accent; slide titles, body text, bullets and labels text_dark; page
\* titles and first-level headings primary, second-level headings
\* secondary, table header shading primary.  The other colours do not
\* depend on the palette: content-slide backgrounds are white, the
\* spreadsheet header fill is 003366, 1E3A5F or 666666 by the request's
\* style with a white header font (the default font colour where a formula
\* was written over a header cell), page table header text is whitesmoke,
\* table body shading beige, table body text, grid and running text black.
C16_ColoursByRoleOrFixed ==
    /\ Succeeded("create_pptx") =>
          LET palette == resolve_palette(arg.color_palette)
              Role(r) == hex_to_rgb(palette[r])
              last == Len(arg.slides) + 1
          IN \A s \in 1..Len(Document.slides) :
                LET slide == Document.slides[s] IN
                \A k \in 1..Len(slide) :
                    LET role == slide[k].role IN
                    /\ IsFilled(slide[k]) =>
                          slide[k].fill =
                             CASE role = "background" ->
                                      IF s \in 2..last THEN WHITE ELSE Role("primary")
                               [] role = "accent_bar" -> Role("primary")
                               [] role = "bullet_marker" -> Role("secondary")
                    /\ IsText(slide[k]) =>
                          \A q \in 1..Len(slide[k].paragraphs) :
                              LET colour == slide[k].paragraphs[q].color IN
                              colour # None =>
                                 colour[1] \in
                                    CASE role = "title" ->
                                             {IF s = 1 THEN Role("text_light")
                                              ELSE Role("text_dark")}
                                      [] role = "thanks" -> {Role("text_light")}
                                      [] role = "subtitle" -> {Role("secondary")}
                                      [] role = "author" -> {Role("accent")}
                                      [] role = "stat_value" -> {Role("primary")}
                                      [] role \in {"left_column", "right_column"} ->
                                             {Role("primary"), Role("text_dark")}
                                      [] OTHER -> {Role("text_dark")}
    /\ Succeeded("create_xlsx") /\ FreshWorkbook =>
          \A cell \in FilledCells(Document) :
              /\ cell.fill[1] = (IF arg.style = "financial" THEN "1E3A5F"
                                 ELSE IF arg.style = "minimal" THEN "666666" ELSE "003366")
              /\ cell.font # None /\ cell.font[1].color \in {"FFFFFF", "default"}
    /\ Succeeded("create_pdf") =>
          LET palette == resolve_palette(arg.color_scheme)
              story == FlowablesOf(Document.pages)
          IN /\ \A style \in TablesOf(story) :
                   /\ style.header_background = hex_to_rgb(palette.primary)
                   /\ style.header_text = "whitesmoke"
                   /\ style.body_background = "beige"
                   /\ style.body_text = "black"
                   /\ style.grid = "black"
             /\ \A style \in TextStylesOf(story) :
                   style.textColor =
                      IF style.name \in {"CustomTitle", "CustomHeading1"}
                      THEN hex_to_rgb(palette.primary)
                      ELSE IF style.name = "CustomHeading2"
                      THEN hex_to_rgb(palette.secondary)
                      ELSE <<0, 0, 0>>

\* a page document in corporate_blue with a table: the header row is shaded
\* with the primary colour, the body with beige
C16_Witness ==
    /\ Succeeded("create_pdf")
    /\ arg.color_scheme = "corporate_blue"
    /\ \E style \in TablesOf(FlowablesOf(Document.pages)) :
          /\ style.header_background = <<0, 51, 102>>
          /\ style.body_background = "beige"

\* ------------------------------------------------------------------ C17
IsStandardLayout(slide_content) ==
    slide_content.layout \notin {"two_column", "stats", "image_left", "image_right"}
IsBullet(shape) == shape.role = "bullet"
IsMarker(shape) == shape.role = "bullet_marker"
\* 1.6in without body text, 3.0in with, in EMU
BaseOffset(slide_content) ==
    IF TruthyStr(slide_content.content) THEN 2743200 ELSE 1463040
\* 0.7in, 0.6in and 0.1in in EMU
ITEM_HEIGHT == 640080
BOX_HEIGHT == 548640
MARKER_DROP == 91440

\* C17 as stated: bullet i of a standard-layout slide is at exactly
\* base_offset + i * 0.7in.
C17_BulletsAtExactMultiples ==
    Succeeded("create_pptx") =>
       \A s \in 1..Len(arg.slides) :
           IsStandardLayout(arg.slides[s]) =>
              LET bullets == ShapesWith(Document.slides[s + 1], IsBullet)
              IN \A i \in 0..(Len(bullets) - 1) :
                     bullets[i + 1].top = BaseOffset(arg.slides[s]) + i * ITEM_HEIGHT

\* C17: on a standard-layout slide with N bullet points there are N bullet
\* boxes and N markers, in request order; bullet i (0-based) is at
\* base_offset + i * 0.7in, truncated to whole EMU after the product i * 0.7
\* was taken in floating point, which is the exact offset for i < 3 and at
\* most one EMU (1/914400 in) less otherwise; base_offset is 1.6in
\* without body text and 3.0in with; each marker is 0.1in below the top of
\* its bullet's box and inside its row; the boxes are 0.6in high and
\* consecutive boxes do not overlap.
C17_BulletRows ==
    Succeeded("create_pptx") =>
       \A s \in 1..Len(arg.slides) :
           IsStandardLayout(arg.slides[s]) =>
              LET points == ListOf(arg.slides[s].bullet_points)
                  bullets == ShapesWith(Document.slides[s + 1], IsBullet)
                  markers == ShapesWith(Document.slides[s + 1], IsMarker)
                  exact(i) == BaseOffset(arg.slides[s]) + i * ITEM_HEIGHT
              IN /\ Len(bullets) = Len(points)
                 /\ Len(markers) = Len(points)
                 /\ \A i \in 0..(Len(points) - 1) :
                       /\ bullets[i + 1].paragraphs[1].text = "    " \o points[i + 1]
                       /\ bullets[i + 1].top \in {exact(i) - 1, exact(i)}
                       /\ i < 3 => bullets[i + 1].top = exact(i)
                       /\ bullets[i + 1].height = BOX_HEIGHT
                       /\ markers[i + 1].top = bullets[i + 1].top + MARKER_DROP
                       /\ markers[i + 1].top + markers[i + 1].height
                             <= bullets[i + 1].top + bullets[i + 1].height
                       /\ i > 0 => bullets[i].top + bullets[i].height <= bullets[i + 1].top

\* a slide with body text and four bullets: the fourth box is one EMU short of
\* 3.0in + 3 * 0.7in
C17_Witness ==
    /\ Succeeded("create_pptx")
    /\ Len(arg.slides) = 1
    /\ IsStandardLayout(arg.slides[1])
    /\ TruthyStr(arg.slides[1].content)
    /\ Len(ListOf(arg.slides[1].bullet_points)) = 4
    /\ ShapesWith(Document.slides[2], IsBullet)[4].top = 4663439
    /\ ShapesWith(Document.slides[2], IsMarker)[4].top = 4754879

\* ------------------------------------------------------------------ C18
\* the last clock reading of the model
LastHour == START_TIME + MaxTicks
\* the names a file of the store can have
StoreNames ==
    {LeftOld, LeftYoung}
    \cup {generate_filename("presentation", "pptx", t, u) :
             t \in START_TIME..LastHour, u \in ServiceIds}
    \cup {generate_filename("document", "pdf", t, u) :
             t \in START_TIME..LastHour, u \in ServiceIds}
\* the file of that name is in the store and older than the retention
\* window before the clock of the model stops
Expiring(n) ==
    /\ n \in DOMAIN files
    /\ files[n].mtime < LastHour - FILE_RETENTION_HOURS
RequestOps == CreateOps \cup {"upload_logo", "download_file", "delete_file"}

\* C18: while the service runs, the sweep loop makes a pass whenever its
\* sleep is over and then sleeps one hour; only the shutdown of the service
\* stops it, no request-handling operation changes it; after a pass no file
\* older than the retention window is in the store; and every file that
\* outlives the window is eventually out of the store, unless the service
\* is shut down first.
C18_SweepEventuallyDeletes ==
    /\ [](Serving => sweeper.wake <= now + SWEEP_SLEEP_HOURS)
    /\ [](op = "cleanup_old_files" =>
             \A n \in DOMAIN files : files[n].mtime >= now - FILE_RETENTION_HOURS)
    /\ [][/\ Serving /\ ~Serving' => op' = "shutdown"
          /\ op' \in RequestOps => sweeper' = sweeper
          /\ op' = "cleanup_old_files" => sweeper'.wake = now + SWEEP_SLEEP_HOURS]_vars
    /\ \A n \in StoreNames : Expiring(n) ~> (n \notin DOMAIN files \/ ~Serving)

\* the pass of the last hour while the service runs: the deck of the first
\* hour is gone, the one generated an hour later is as old as the window
\* and stays
C18_Witness ==
    /\ op = "cleanup_old_files"
    /\ Serving
    /\ now = LastHour
    /\ sweeper.wake = LastHour + SWEEP_SLEEP_HOURS
    /\ DOMAIN files = {generate_filename("presentation", "pptx", START_TIME + 1, "a1b2c3d4")}

\* ------------------------------------------------------------------ C19
\* the name an upload stores its bytes under: name or file.filename
UploadedName(request) == IF TruthyStr(request.name) THEN request.name[1] ELSE request.filename
UploadOps == {"upload_logo", "upload_image", "upload_template"}
\* the category an upload request names
UploadedCategory(opname, request) ==
    IF opname = "upload_logo" THEN "logos"
    ELSE IF opname = "upload_image" THEN "images"
    ELSE request.template_type
\* the entries of a category of the registry
Entries(category, ldir, idir, tdir) ==
    IF category = "logos" THEN ldir
    ELSE IF category = "images" THEN idir
    ELSE IF category \in DOMAIN tdir THEN tdir[category]
    ELSE EmptyDir
LookedUpCategories == {"logos", "images"} \cup TemplateTypes

\* C19 as stated: after an upload under (category, name) the composers'
\* lookup of that category and name resolves to the entry with the bytes
\* uploaded last; the entries under every other category or name are as
\* they were; and no step of the service removes an entry.
C19_RegistryRoundTrip ==
    [][/\ op' \in UploadOps /\ UploadedCategory(op', arg') \in LookedUpCategories =>
             LET category == UploadedCategory(op', arg')
                 name == UploadedName(arg')
                 after == Entries(category, logos', images', templates')
             IN /\ name \in DOMAIN after
                /\ after[name] = arg'.bytes
                /\ category = "logos" =>
                      get_logo_path(Some(name), logos') = Some(Path("logos", name))
                /\ category = "images" =>
                      get_image_path(Some(name), images') = Some(Path("images", name))
                /\ category \in TemplateTypes =>
                      get_template_path(Some(name), category, templates')
                         = Some(Path(category, name))
       /\ \A category \in LookedUpCategories :
             LET before == Entries(category, logos, images, templates)
                 after == Entries(category, logos', images', templates')
             IN /\ DOMAIN before \subseteq DOMAIN after
                /\ \A name \in DOMAIN after :
                      \/ name \in DOMAIN before /\ after[name] = before[name]
                      \/ /\ op' \in UploadOps
                         /\ UploadedCategory(op', arg') = category
                         /\ UploadedName(arg') = name]_vars

\* ------------------------------------------------------------------ C20
\* the text of the title box of a slide
TitleText(slide) == ShapeWithRole(slide, "title").paragraphs[1].text
\* what tells the three kinds of slides apart
LooksLikeTitleSlide(slide) ==
    /\ HasRole(slide, "title")
    /\ ShapeWithRole(slide, "title").paragraphs[1].size = Some(44)
    /\ ~HasRole(slide, "accent_bar")
    /\ ~HasRole(slide, "thanks")
LooksLikeContentSlide(slide) ==
    /\ HasRole(slide, "title")
    /\ HasRole(slide, "accent_bar")
    /\ ~HasRole(slide, "thanks")
LooksLikeClosingSlide(slide) ==
    /\ HasRole(slide, "thanks")
    /\ ~HasRole(slide, "title")
    /\ ~HasRole(slide, "accent_bar")
WithToc(request, toc) == [request EXCEPT !.include_toc = toc]

\* C20: a deck generated for a request with N content slides has
\* 1 + N + (1 if include_closing) slides: the title slide with the request's
\* title, then one content slide per slide of the request, in request order
\* and with its title and its layout's content, then the closing slide if
\* asked for; include_toc changes nothing in the deck; every slide carries
\* exactly one logo picture, the resolved logo, when the logo resolves, and
\* none when it does not.
C20_DeckSlidesAndLogos ==
    Succeeded("create_pptx") =>
       LET slides == Document.slides
           N == Len(arg.slides)
           logo_path == ProbedWithExtensions("logos", arg.logo, logos)
       IN /\ Len(slides) = 1 + N + (IF arg.include_closing THEN 1 ELSE 0)
          /\ LooksLikeTitleSlide(slides[1])
          /\ TitleText(slides[1]) = arg.title
          /\ \A i \in 1..N :
                /\ LooksLikeContentSlide(slides[i + 1])
                /\ TitleText(slides[i + 1]) = arg.slides[i].title
                /\ HasRole(slides[i + 1], "stat_value") <=>
                      (arg.slides[i].layout = "stats" /\ TruthyList(arg.slides[i].stats))
                /\ HasRole(slides[i + 1], "bullet") <=>
                      (IsStandardLayout(arg.slides[i]) /\ TruthyList(arg.slides[i].bullet_points))
          /\ arg.include_closing => LooksLikeClosingSlide(slides[N + 2])
          /\ Compose("create_pptx", WithToc(arg, TRUE)) = Compose("create_pptx", WithToc(arg, FALSE))
          /\ \A k \in 1..Len(slides) :
                LET pictures == ShapesWith(slides[k], IsLogo)
                IN /\ Len(pictures) = IF logo_path # None THEN 1 ELSE 0
                   /\ logo_path # None => pictures[1].path = logo_path[1]

\* a deck of two content slides, the first with statistics, with a closing
\* slide and the logo "acme" found as acme.png: four slides, a logo on each
C20_Witness ==
    /\ Succeeded("create_pptx")
    /\ Len(arg.slides) = 2
    /\ arg.include_closing
    /\ arg.logo = Some("acme")
    /\ arg.slides[1].layout = "stats"
    /\ Len(Document.slides) = 4
    /\ HasRole(Document.slides[2], "stat_value")
    /\ TitleText(Document.slides[3]) = "Second"
    /\ \A k \in 1..4 :
          /\ Len(ShapesWith(Document.slides[k], IsLogo)) = 1
          /\ ShapesWith(Document.slides[k], IsLogo)[1].path = Path("logos", "acme.png")

\* ------------------------------------------------------------------ C21
IsTable(element) == element.type = "table"
HasTable(section) == TruthyList(section.table)
\* the sections of a word request that carry a non-empty table, in order
TableSections(request) == SelectSeq(request.sections, HasTable)
\* no heading of the request has a level that add_heading rejects
HeadingLevelsValid(request) ==
    \A i \in 1..Len(request.sections) :
        TruthyStr(request.sections[i].heading) => request.sections[i].heading_level \in 0..9

\* C21 as stated: a word document whose sections carry non-empty tables,
\* with rows of any lengths, is generated, and the k-th table of the
\* document is the grid of the k-th such section: one grid row per table
\* row, in order, every supplied value as the text of the cell at its row
\* and column, bold in the first row, and the cells that a shorter row does
\* not supply empty.
C21_RaggedTablesAreComposed ==
    op = "create_docx" /\ HeadingLevelsValid(arg) /\ TableSections(arg) # <<>> =>
       /\ ret.status = 200
       /\ LET tables == SelectSeq(Document.body, IsTable)
              wanted == TableSections(arg)
          IN /\ Len(tables) = Len(wanted)
             /\ \A k \in 1..Len(wanted) :
                   LET data == wanted[k].table[1]
                       grid == tables[k]
                   IN /\ grid.rows = Len(data)
                      /\ \A i \in 1..Len(data) :
                            /\ \A j \in 1..Len(data[i]) :
                                  /\ j \in DOMAIN grid.cells[i]
                                  /\ grid.cells[i][j].text = data[i][j]
                                  /\ grid.cells[i][j].bold = (i = 1)
                            /\ \A j \in (DOMAIN grid.cells[i]) \ (1..Len(data[i])) :
                                  grid.cells[i][j].text = ""

====
